---- MODULE Spec2Model ----
(***************************************************************************)
(* Auxiliary-engine coordination core of lc0 (hans-ekbrand fork):          *)
(* src/src/mcts/auxengine.cc with the SearchStats of src/src/mcts/search.h *)
(*                                                                         *)
(* The state is SearchStats (the two queues, the PV cache, the helper      *)
(* vectors, the purge flags), the per-node auxiliary tag, the stop flag,   *)
(* and the position of every AuxEngineWorker thread.  One action stands    *)
(* for one critical section (or one lock-free shared access) of the code.  *)
(***************************************************************************)
EXTENDS Integers, Sequences, FiniteSets, TLC

(***************************************************************************)
(* Bounds of the model.                                                    *)
(***************************************************************************)
\* stands for the 15000 of auxengine.cc:81 and :435, scaled down
MaxNodeQueue == 2
\* stands for the 20000 of auxengine.cc:620, scaled down
MaxPVQueue == 1
\* number of searches (moves) of one run
MaxSearches == 1
\* number of searches of a run that follows the helpers from one move to the next
MaxLifetimeSearches == 2
\* `stop` commands counted per query; the helper then answers with bestmove
MaxStopsCounted == 2
\* positions in a game history
MaxHistory == 6
\* the 50-move counter value that ends the game (100 in position.cc:278)
Rule50Limit == 5
\* the largest 50-move counter a history is Reset with
MaxResetPly == 1
\* the boards of a history, as their number of legal moves and the in-check flag
Boards == { [L |-> 3, check |-> FALSE], [L |-> 9, check |-> TRUE],
            [L |-> 9, check |-> FALSE], [L |-> 10, check |-> FALSE] }
\* boards without a legal move: checkmate and stalemate
FinalBoards == { [L |-> 0, check |-> TRUE], [L |-> 0, check |-> FALSE] }

(***************************************************************************)
(* Configuration (UCI options read through params_).                       *)
(***************************************************************************)
AuxEngineInstances == 2
AuxEngineMaxDepth == 1

Threads == 1..AuxEngineInstances

(***************************************************************************)
(* The tree.  A node is the sequence <<tree id, move, move, ...>>: the     *)
(* moves are those on the edges from the tree's first root to the node.    *)
(* Moves are numbered in the encoding of the side to move; the rotated     *)
(* form of move m (Move::Mirror) is -m.                                    *)
(***************************************************************************)
Moves == {1, 2}
Null == <<>>
BadToken == 0

\* the nodes MCTS may nominate, as move paths below a tree's first root
NomineePaths == { <<1, 1, 1>>, <<1, 2>> }
AllPaths == { <<>>, <<1>>, <<2>>, <<1, 1>>, <<1, 2>>, <<2, 1>>, <<2, 2>>, <<1, 1, 1>> }
\* tree 1 is the game in progress, tree 2 the tree of a game started after it
Trees == {1, 2}
Nodes == { <<g>> \o p : g \in Trees, p \in AllPaths }

UNSET == "UNSET"
PENDING == "PENDING"   \* 0xfffe
DONE == "DONE"         \* 0xffff

GetParent(n) == IF Len(n) <= 1 THEN Null ELSE SubSeq(n, 1, Len(n) - 1)
HasOwnEdge(n) == Len(n) > 1
Mirror(m) == -m
\* Edge::GetMove(as_opponent)
GetMove(n, as_opponent) == IF as_opponent THEN Mirror(n[Len(n)]) ELSE n[Len(n)]
IsPrefix(r, n) == Len(r) <= Len(n) /\ SubSeq(n, 1, Len(r)) = r
\* node n is allocated while r is the root: it lies below r, or on the path down to r
\* (the subtrees of the moves not played are deallocated when the root moves on)
Live(n, r) == IsPrefix(r, n) \/ IsPrefix(n, r)
\* played_history_.IsBlackToMove(): the first root of a tree has white to move
IsBlackToMove(r) == (Len(r) - 1) % 2 = 1
\* Move::ParseMove(&m, mv.as_string(), black_to_move) of a move in own-side encoding
ParseMoveOf(m, black_to_move) == IF black_to_move THEN Mirror(m) ELSE m

RECURSIVE SeqToSet(_)
SeqToSet(s) == IF s = <<>> THEN {} ELSE {Head(s)} \cup SeqToSet(Tail(s))

(***************************************************************************)
(* Helper output: an `info depth d nodes k pv m1 m2 ...` line.             *)
(***************************************************************************)
NoLine == [depth |-> 0, nodes |-> 0, pv |-> <<>>]
InfoLines == { [depth |-> 20, nodes |-> 5000, pv |-> <<1, 1, 1, 1>>],
               [depth |-> 20, nodes |-> 5000, pv |-> <<2, 1, 1, 1>>] }

VARIABLES
  \* ---- Search ----
  phase,            \* "idle" | "searching": whether a Search object is running
  searchNo,         \* number of searches started
  root_node_,       \* Search::root_node_
  stop_,            \* Search::stop_
  stopper,          \* "none" | "armed" | "sent": MaybeTriggerStop's helper stops
  final_bestmove_,  \* Search::final_bestmove_
  aborted,          \* the process hit undefined behaviour (null or empty-queue read)
  \* ---- configuration ----
  OptionsOnRoot,    \* params_.GetAuxEngineOptionsOnRoot() is non-empty
  \* ---- SearchStats ----
  persistent_queue_of_nodes,
  fast_track_extend_and_evaluate_queue_,
  starting_depth_of_PVs_,
  amount_of_support_for_PVs_,
  my_pv_cache_,
  thread_counter,
  vector_of_auxengine_ready_,
  auxengine_stopped_,
  initial_purge_run,
  final_purge_run,
  New_Game,
  size_of_queue_at_start,
  \* ---- nodes ----
  aux_tag,          \* Node::GetAuxEngineMove() of every node
  \* ---- helper subprocesses, by slot 0..N-1 (stored at index slot+1) ----
  helper,           \* "idle" | "go_time" | "go_inf" | "stopping"
  num_stop,         \* `stop` commands written to the helper during its running query
  stop_midstream,   \* stop_ was set between the helper's last `go` and its bestmove
  \* ---- AuxEngineWorker threads ----
  pc, our_index, cur_n, cur_depth, cur_line, stopping, second_stopping, root_is_queued,
  fresh,
  \* ---- history, for the properties ----
  pushed_keys,      \* cache keys of the PVs pushed onto the PV queue in this move, in order
  end_pairs,        \* the (target, witness) pairs the last end-of-move purge kept
  last_op,          \* what the last step did
  \* ---- the locks (lock-level actions only) ----
  lpc,              \* the line of auxengine.cc each thread executes next
  mutex_owner,      \* the thread that holds each mutex, or NoThread
  \* ---- PositionHistory (chess/position.cc) ----
  positions_,       \* the boards of the game, first to last
  black_at_reset,   \* black is to move in the first position
  game_result,      \* what ComputeGameResult() returned
  negated,          \* what operator- made of it
  rpc,              \* "none" | "play" | "computed" | "negated"
  \* ---- one query of DoAuxEngine, statement by statement ----
  qpc,              \* the line of DoAuxEngine each worker executes next
  spc,              \* the stopper: "none" | "set" | "lock" | "send" | "unlock" | "done"
  sent,             \* the `go` and `stop` commands written to each helper, in order
  pipe,             \* the lines each helper has written that its worker has not read
  num_lines,        \* info lines the helper has written since its last `go`
  prev_line,        \* prev_line of DoAuxEngine
  ended_dead,       \* the child was no longer running when the read loop ended
  num_queries       \* calls of DoAuxEngine that reached line 759

search_vars == <<phase, searchNo, root_node_, stop_, stopper, final_bestmove_,
                 aborted, OptionsOnRoot>>
queue_vars == <<persistent_queue_of_nodes, size_of_queue_at_start>>
pv_vars == <<fast_track_extend_and_evaluate_queue_, starting_depth_of_PVs_,
             amount_of_support_for_PVs_>>
stats_vars == <<thread_counter, vector_of_auxengine_ready_, initial_purge_run,
                final_purge_run, New_Game>>
helper_vars == <<helper, auxengine_stopped_, num_stop, stop_midstream>>
worker_vars == <<pc, our_index, cur_n, cur_depth, cur_line, stopping, second_stopping,
                 root_is_queued, fresh>>
lock_vars == <<lpc, mutex_owner>>
result_vars == <<positions_, black_at_reset, game_result, negated, rpc>>
query_vars == <<qpc, spc, sent, pipe, num_lines, prev_line, ended_dead, num_queries>>
vars == <<search_vars, queue_vars, pv_vars, stats_vars, helper_vars, worker_vars,
          my_pv_cache_, aux_tag, pushed_keys, end_pairs, last_op, lock_vars, result_vars,
          query_vars>>

\* the threads and the mutexes of the lock-level actions; thread 0 is an MCTS
\* thread calling AuxMaybeEnqueueNode
GateThread == 0
LThreads == Threads \cup {GateThread}
NoThread == -1
NoMutex == "none"
Mutexes == { "pure_stats_mutex_", "auxengine_mutex_",
             "fast_track_extend_and_evaluate_queue_mutex_",
             "auxengine_stopped_mutex_", "my_pv_cache_mutex_" }

\* GameResult as the integers of the switch of position.cc:138-259
UNDECIDED == 0
BLACK_WON == 1
BLACK_STALEMATE == 2
BLACK_G1_0 == 3
BLACK_G9_5 == 20
DRAW == 21
WHITE_STALEMATE == 22
WHITE_G1_0 == 24
WHITE_G9_5 == 41
WHITE_WON == 42

\* no game history is under classification
ResultIdle ==
  /\ positions_ = <<>>
  /\ black_at_reset = FALSE
  /\ game_result = UNDECIDED
  /\ negated = UNDECIDED
  /\ rpc = "none"

\* no thread is between two lock operations: the actions that take a critical
\* section as one step do not use the lock variables
LocksIdle ==
  /\ lpc = [t \in LThreads |-> "none"]
  /\ mutex_owner = [m \in Mutexes |-> NoThread]

\* no query is followed statement by statement
QueryIdle ==
  /\ qpc = [t \in Threads |-> "none"]
  /\ spc = "none"
  /\ sent = [i \in 0..(AuxEngineInstances - 1) |-> <<>>]
  /\ pipe = [i \in 0..(AuxEngineInstances - 1) |-> <<>>]
  /\ num_lines = [i \in 0..(AuxEngineInstances - 1) |-> 0]
  /\ prev_line = [t \in Threads |-> ""]
  /\ ended_dead = [t \in Threads |-> FALSE]
  /\ num_queries = [t \in Threads |-> 0]

\* op: the operation; node: its node; notified: auxengine_cv_.notify_one() was called;
\* arg: what the operation read (a queue as it was before a purge, a thread)
Op(o, n, nt) == [op |-> o, node |-> n, notified |-> nt, arg |-> <<>>]
OpK(o, k) == [op |-> o, node |-> Null, notified |-> FALSE, arg |-> k]
NoOp == Op("none", Null, FALSE)

(***************************************************************************)
(* Pure parts of the code.                                                 *)
(***************************************************************************)
max_pv_length == 99
min_pv_size == 4
MinNodesToSupport == 1000
MinDepthReached == 10

\* ChessBoard::GetModernMove of a parsed helper move
GetModernMove(tok) == tok

\* the inner loop of AuxEncode_and_Enqueue: a token is read, then the length is tested,
\* then the token is parsed; pv_length counts from its initial value.  The moves
\* pushed are those of the iterations before the first one that leaves the loop.
TakePV(tokens, pv_length, depth_reached) ==
  LET Passes(j) == /\ pv_length + j - 1 < depth_reached
                   /\ pv_length + j - 1 < max_pv_length
                   /\ tokens[j] # BadToken
      taken == Cardinality({ k \in 1..Len(tokens) : \A j \in 1..k : Passes(j) })
  IN [j \in 1..taken |-> GetModernMove(tokens[j])]

\* PvMoves without the test of line 549 on require_some_depth, nodes and depth
PvMoves_NoGate(line, require_some_depth) == TakePV(line.pv, 1, line.depth)

\* pv_moves after the outer loop of AuxEncode_and_Enqueue
PvMoves(line, require_some_depth) ==
  IF ~require_some_depth \/ line.nodes >= MinNodesToSupport \/ line.depth > MinDepthReached
  THEN TakePV(line.pv, 1, line.depth)
  ELSE <<>>

\* the key of the PV cache: the packed moves, comma separated
CacheKey(pv_moves) == pv_moves

\* my_pv_cache_.find(key) != my_pv_cache_.end()
CacheSeen(cache, key) == key \in cache

\* a flat queue of target, witness, target, witness, ... as a sequence of pairs
RECURSIVE Pairs(_)
Pairs(q) == IF Len(q) < 2 THEN <<>> ELSE <<<<q[1], q[2]>>>> \o Pairs(Tail(Tail(q)))

\* moves on the edges from root r down to node n (my_moves_from_the_white_side)
MovesFromRoot(r, n) == SubSeq(n, Len(r) + 1, Len(n))

\* the guarded push of AuxMaybeEnqueueNode and of the root kickstart
CanPushNode(q) == Len(q) < MaxNodeQueue

\* variant of CanPushPV: the push without the size test
CanPushPV_NoCap(q) == TRUE

\* the guarded push of AuxEncode_and_Enqueue
CanPushPV(q) == Len(q) < MaxPVQueue

\* variant of StartPurgePVLoop: the first move is erased without being compared
RECURSIVE StartPurgePVLoop_NoCompare(_, _)
StartPurgePVLoop_NoCompare(q, valid_move) ==
  IF q = <<>> THEN <<>>
  ELSE LET pv == Head(q)
           rest == StartPurgePVLoop_NoCompare(Tail(q), valid_move)
       IN IF Len(pv) > 1 THEN <<Tail(pv)>> \o rest ELSE rest

\* the start-of-move purge loop over the PV queue
RECURSIVE StartPurgePVLoop(_, _)
StartPurgePVLoop(q, valid_move) ==
  IF q = <<>> THEN <<>>
  ELSE LET pv == Head(q)
           rest == StartPurgePVLoop(Tail(q), valid_move)
       IN IF Len(pv) > 1 /\ pv[1] = valid_move THEN <<Tail(pv)>> \o rest ELSE rest

StartPurgePV(q, r) ==
  IF ~HasOwnEdge(r) THEN <<>>
  ELSE IF Len(q) > 0 THEN StartPurgePVLoop(q, GetMove(r, FALSE))
  ELSE q

\* the end-of-move purge loop over the PV queue
RECURSIVE AuxWaitPVLoop(_, _, _)
AuxWaitPVLoop(q, bestmove, black) ==
  IF q = <<>> THEN <<>>
  ELSE LET pv == Head(q)
           rest == AuxWaitPVLoop(Tail(q), bestmove, black)
       IN IF ParseMoveOf(pv[1], black) = bestmove THEN <<Tail(pv)>> \o rest ELSE rest

\* the queue is emptied (auxengine.cc:1028) before the loop reads it
AuxWaitPV(q, bestmove, black) ==
  IF q = <<>> THEN q
  ELSE AuxWaitPVLoop(<<>>, bestmove, black)

\* variant of AuxWaitWalk: the move of line 957 is not compared with final_bestmove_
RECURSIVE AuxWaitWalk_AnyMove(_, _, _, _, _)
AuxWaitWalk_AnyMove(n, n2, r, bestmove, black) ==
  IF n2 = r THEN <<>>
  ELSE IF GetParent(n2) = Null \/ GetParent(GetParent(n2)) = Null
          \/ ~HasOwnEdge(GetParent(n2)) THEN <<>>
  ELSE IF GetParent(GetParent(n2)) = r THEN <<n, n2>>
  ELSE AuxWaitWalk_AnyMove(n, GetParent(n2), r, bestmove, black)

\* the end-of-move walk from a queued node n up to the root: the pair to keep, if any
RECURSIVE AuxWaitWalk(_, _, _, _, _)
AuxWaitWalk(n, n2, r, bestmove, black) ==
  IF n2 = r THEN <<>>
  ELSE IF GetParent(n2) = Null \/ GetParent(GetParent(n2)) = Null
          \/ ~HasOwnEdge(GetParent(n2)) THEN <<>>
  ELSE IF GetParent(GetParent(n2)) = r
       THEN IF GetMove(GetParent(n2), black) = bestmove THEN <<n, n2>> ELSE <<>>
  ELSE AuxWaitWalk(n, GetParent(n2), r, bestmove, black)

RECURSIVE AuxWaitNodes(_, _, _, _)
AuxWaitNodes(q, r, bestmove, black) ==
  IF q = <<>> THEN <<>>
  ELSE AuxWaitWalk(Head(q), Head(q), r, bestmove, black)
         \o AuxWaitNodes(Tail(q), r, bestmove, black)

\* the start-of-move purge loop over the node queue: k entries are popped in pairs
RECURSIVE StartPurgeKept(_, _, _)
StartPurgeKept(q, k, r) ==
  IF k <= 0 THEN <<>>
  ELSE (IF q[2] = r THEN <<q[1]>> ELSE <<>>) \o StartPurgeKept(Tail(Tail(q)), k - 2, r)

\* entries the loop pops: size_of_queue_at_start rounded up to whole pairs
StartPurgePopped(k) == IF k <= 0 THEN 0 ELSE 2 * ((k + 1) \div 2)

StartPurgeNodes(q, k, r) ==
  SubSeq(q, StartPurgePopped(k) + 1, Len(q)) \o StartPurgeKept(q, k, r)


(***************************************************************************)
(* Initial states.  A run starts either with the engine as constructed, or *)
(* between two moves of game 1: the helpers have been started by the move  *)
(* before, whose search nominated node n and was stopped before a worker   *)
(* dequeued it, and whose AuxWait() purged the queues for the move `best`. *)
(***************************************************************************)
\* what the two kinds of initial state share
InitCommon ==
  /\ phase = "idle"
  /\ searchNo = 0
  /\ root_node_ = <<1>>
  /\ stop_ = FALSE
  /\ stopper = "none"
  /\ aborted = FALSE
  /\ fast_track_extend_and_evaluate_queue_ = <<>>
  /\ starting_depth_of_PVs_ = <<>>
  /\ amount_of_support_for_PVs_ = <<>>
  /\ my_pv_cache_ = {}
  /\ thread_counter = 0
  /\ initial_purge_run = FALSE
  /\ size_of_queue_at_start = 0
  /\ helper = [i \in 0..(AuxEngineInstances - 1) |-> "idle"]
  /\ num_stop = [i \in 0..(AuxEngineInstances - 1) |-> 0]
  /\ stop_midstream = [i \in 0..(AuxEngineInstances - 1) |-> FALSE]
  /\ pc = [t \in Threads |-> "none"]
  /\ our_index = [t \in Threads |-> 0]
  /\ cur_n = [t \in Threads |-> Null]
  /\ cur_depth = [t \in Threads |-> 0]
  /\ cur_line = [t \in Threads |-> NoLine]
  /\ stopping = [t \in Threads |-> FALSE]
  /\ second_stopping = [t \in Threads |-> FALSE]
  /\ root_is_queued = [t \in Threads |-> FALSE]
  /\ fresh = [t \in Threads |-> FALSE]
  /\ pushed_keys = <<>>
  /\ last_op = NoOp

\* the engine as constructed (SearchStats of search.h): no helper has been started
InitConstructed ==
  /\ InitCommon
  /\ final_bestmove_ = 0
  /\ persistent_queue_of_nodes = <<>>
  /\ vector_of_auxengine_ready_ = <<>>
  /\ auxengine_stopped_ = <<>>
  /\ final_purge_run \in BOOLEAN
  /\ New_Game = FALSE
  /\ aux_tag = [n \in Nodes |-> UNSET]
  /\ end_pairs = <<>>

\* the engine between two moves; ucinewgame may have arrived since the last move
InitLaterMove ==
  /\ InitCommon
  /\ \E n \in { <<1>> \o p : p \in NomineePaths }, best \in Moves :
       /\ final_bestmove_ = ParseMoveOf(best, IsBlackToMove(<<1>>))
       /\ persistent_queue_of_nodes = AuxWaitNodes(<<n>>, <<1>>, best, IsBlackToMove(<<1>>))
       /\ end_pairs = Pairs(AuxWaitNodes(<<n>>, <<1>>, best, IsBlackToMove(<<1>>)))
       /\ aux_tag = [m \in Nodes |-> IF m = n THEN PENDING ELSE UNSET]
  /\ vector_of_auxengine_ready_ = [i \in 1..AuxEngineInstances |-> TRUE]
  /\ auxengine_stopped_ = [i \in 1..AuxEngineInstances |-> TRUE]
  /\ final_purge_run = FALSE
  /\ New_Game = FALSE

Init ==
  /\ InitConstructed \/ InitLaterMove
  /\ OptionsOnRoot = FALSE
  /\ LocksIdle
  /\ ResultIdle
  /\ QueryIdle

\* the same with AuxEngineOptionsOnRoot set: worker 0 runs the root-infinite query
InitOnRoot ==
  /\ InitConstructed \/ InitLaterMove
  /\ OptionsOnRoot = TRUE
  /\ LocksIdle
  /\ ResultIdle
  /\ QueryIdle

(***************************************************************************)
(* The search driver (search.cc, engine.cc).                               *)
(***************************************************************************)
\* a thread's locals when it is not inside DoAuxEngine
ClearLocals(t) ==
  /\ cur_n' = [cur_n EXCEPT ![t] = Null]
  /\ cur_depth' = [cur_depth EXCEPT ![t] = 0]
  /\ cur_line' = [cur_line EXCEPT ![t] = NoLine]
  /\ stopping' = [stopping EXCEPT ![t] = FALSE]
  /\ second_stopping' = [second_stopping EXCEPT ![t] = FALSE]

\* A new Search: the first of the engine, or on the tree of a new game after ucinewgame,
\* or on the root reached by the move played and the opponent's reply.  OpenAuxEngine
\* creates the worker threads.
StartSearchUpTo(max_searches) ==
  /\ ~aborted
  /\ UNCHANGED <<lock_vars, result_vars, query_vars>>
  /\ phase = "idle"
  /\ searchNo < max_searches
  /\ IF final_bestmove_ = 0 THEN UNCHANGED root_node_
     ELSE IF New_Game THEN root_node_' = <<2>>
     ELSE \E opp \in Moves :
            /\ root_node_ \o <<ParseMoveOf(final_bestmove_, IsBlackToMove(root_node_)), opp>>
                 \in Nodes
            /\ root_node_' =
                 root_node_ \o <<ParseMoveOf(final_bestmove_, IsBlackToMove(root_node_)), opp>>
  /\ phase' = "searching"
  /\ searchNo' = searchNo + 1
  /\ stop_' = FALSE
  /\ stopper' = "none"
  /\ size_of_queue_at_start' = Len(persistent_queue_of_nodes)
  /\ pc' = [t \in Threads |-> "start"]
  /\ our_index' = [t \in Threads |-> 0]
  /\ root_is_queued' = [t \in Threads |-> FALSE]
  /\ fresh' = [t \in Threads |-> FALSE]
  /\ pushed_keys' = <<>>
  /\ last_op' = NoOp
  /\ UNCHANGED <<final_bestmove_, aborted, OptionsOnRoot, persistent_queue_of_nodes,
                 pv_vars, my_pv_cache_, thread_counter, vector_of_auxengine_ready_,
                 initial_purge_run, final_purge_run, New_Game, aux_tag, helper_vars, cur_n,
                 cur_depth, cur_line, stopping, second_stopping, end_pairs>>

\* a run of MaxSearches searches
StartSearch == StartSearchUpTo(MaxSearches)

\* the nodes the MCTS backup may nominate in this search
Candidates ==
  { n \in Nodes : IsPrefix(root_node_, n) /\ Tail(n) \in NomineePaths /\ aux_tag[n] # PENDING }

\* variant of AuxMaybeEnqueueNode: the gate without the test of stop_
AuxMaybeEnqueueNode_NoStopTest(n) ==
  /\ ~aborted
  /\ UNCHANGED <<lock_vars, result_vars, query_vars>>
  /\ phase = "searching"
  /\ n \in Candidates
  /\ IF final_purge_run
     THEN /\ last_op' = Op("gate_purged", Null, FALSE)
          /\ UNCHANGED <<persistent_queue_of_nodes, aux_tag>>
     ELSE /\ aux_tag' = [aux_tag EXCEPT ![n] = PENDING]
          /\ IF CanPushNode(persistent_queue_of_nodes)
             THEN /\ persistent_queue_of_nodes' = Append(persistent_queue_of_nodes, n)
                  /\ last_op' = Op("gate_pushed", n, TRUE)
             ELSE /\ UNCHANGED persistent_queue_of_nodes
                  /\ last_op' = Op("gate_full", n, FALSE)
  /\ UNCHANGED <<search_vars, size_of_queue_at_start, pv_vars, stats_vars, helper_vars,
                 worker_vars, my_pv_cache_, pushed_keys, end_pairs>>

\* SearchWorker::AuxMaybeEnqueueNode(n)
AuxMaybeEnqueueNode(n) ==
  /\ ~aborted
  /\ UNCHANGED <<lock_vars, result_vars, query_vars>>
  /\ phase = "searching"
  /\ n \in Candidates
  /\ IF stop_
     THEN /\ last_op' = Op("gate_stopped", Null, FALSE)
          /\ UNCHANGED <<persistent_queue_of_nodes, aux_tag>>
     ELSE IF final_purge_run
     THEN /\ last_op' = Op("gate_purged", Null, FALSE)
          /\ UNCHANGED <<persistent_queue_of_nodes, aux_tag>>
     ELSE /\ aux_tag' = [aux_tag EXCEPT ![n] = PENDING]
          /\ IF CanPushNode(persistent_queue_of_nodes)
             THEN /\ persistent_queue_of_nodes' = Append(persistent_queue_of_nodes, n)
                  /\ last_op' = Op("gate_pushed", n, TRUE)
             ELSE /\ UNCHANGED persistent_queue_of_nodes
                  /\ last_op' = Op("gate_full", n, FALSE)
  /\ UNCHANGED <<search_vars, size_of_queue_at_start, pv_vars, stats_vars, helper_vars,
                 worker_vars, my_pv_cache_, pushed_keys, end_pairs>>

\* the stopper sets stop_ (and notifies the condition variable)
SetStop ==
  /\ ~aborted
  /\ UNCHANGED <<lock_vars, result_vars, query_vars>>
  /\ phase = "searching"
  /\ ~stop_
  /\ stop_' = TRUE
  /\ stopper' = "armed"
  /\ stop_midstream' = [i \in DOMAIN helper |-> helper[i] \in {"go_time", "go_inf"}]
  /\ last_op' = NoOp
  /\ UNCHANGED <<phase, searchNo, root_node_, final_bestmove_, aborted, OptionsOnRoot,
                 queue_vars, pv_vars, stats_vars, helper, auxengine_stopped_, num_stop,
                 worker_vars, my_pv_cache_,
                 aux_tag, pushed_keys, end_pairs>>

\* the stopper, under auxengine_stopped_mutex_, sends `stop` to every helper that is
\* not stopped
StopHelpers ==
  /\ ~aborted
  /\ UNCHANGED <<lock_vars, result_vars, query_vars>>
  /\ stopper = "armed"
  /\ stopper' = "sent"
  /\ helper' = [i \in DOMAIN helper |->
                  IF i + 1 <= Len(auxengine_stopped_) /\ ~auxengine_stopped_[i + 1]
                     /\ helper[i] \in {"go_time", "go_inf"}
                  THEN "stopping" ELSE helper[i]]
  /\ num_stop' = [i \in DOMAIN helper |->
                    IF i + 1 <= Len(auxengine_stopped_) /\ ~auxengine_stopped_[i + 1]
                       /\ helper[i] \in {"go_time", "go_inf"}
                    THEN num_stop[i] + 1 ELSE num_stop[i]]
  /\ auxengine_stopped_' = [i \in DOMAIN auxengine_stopped_ |-> TRUE]
  /\ UNCHANGED stop_midstream
  /\ last_op' = NoOp
  /\ UNCHANGED <<phase, searchNo, root_node_, stop_, final_bestmove_, aborted,
                 OptionsOnRoot, queue_vars, pv_vars, stats_vars, worker_vars, my_pv_cache_,
                 aux_tag, pushed_keys, end_pairs>>

\* the tree-extension stage of MCTS takes the PV at the front of the PV queue
ConsumePV ==
  /\ ~aborted
  /\ UNCHANGED <<lock_vars, result_vars, query_vars>>
  /\ phase = "searching"
  /\ fast_track_extend_and_evaluate_queue_ # <<>>
  /\ fast_track_extend_and_evaluate_queue_' = Tail(fast_track_extend_and_evaluate_queue_)
  /\ starting_depth_of_PVs_' =
       IF starting_depth_of_PVs_ = <<>> THEN <<>> ELSE Tail(starting_depth_of_PVs_)
  /\ amount_of_support_for_PVs_' =
       IF amount_of_support_for_PVs_ = <<>> THEN <<>> ELSE Tail(amount_of_support_for_PVs_)
  /\ last_op' = NoOp
  /\ UNCHANGED <<search_vars, queue_vars, stats_vars, helper_vars, worker_vars, my_pv_cache_,
                 aux_tag, pushed_keys, end_pairs>>

\* Search::AuxWait(): join the workers, clear the PV cache, purge both queues
AuxWait ==
  /\ ~aborted
  /\ UNCHANGED <<lock_vars, result_vars, query_vars>>
  /\ phase = "searching"
  /\ stop_
  /\ stopper = "sent"
  /\ \A t \in Threads : pc[t] = "done"
  /\ IF \E i \in DOMAIN persistent_queue_of_nodes :
          ~Live(persistent_queue_of_nodes[i], root_node_)
     THEN \* n2->GetParent() of a node that was deallocated with its subtree
          /\ aborted' = TRUE
          /\ UNCHANGED <<phase, final_bestmove_, persistent_queue_of_nodes, end_pairs,
                         fast_track_extend_and_evaluate_queue_, my_pv_cache_,
                         initial_purge_run, pc, last_op>>
     ELSE /\ \E best \in Moves :
               LET black == IsBlackToMove(root_node_)
                   bestmove == ParseMoveOf(best, black)
               IN /\ final_bestmove_' = bestmove
                  /\ persistent_queue_of_nodes' =
                       IF Len(persistent_queue_of_nodes) > 0
                       THEN AuxWaitNodes(persistent_queue_of_nodes, root_node_, bestmove, black)
                       ELSE persistent_queue_of_nodes
                  /\ end_pairs' =
                       Pairs(AuxWaitNodes(persistent_queue_of_nodes, root_node_, bestmove, black))
                  /\ fast_track_extend_and_evaluate_queue_' =
                       AuxWaitPV(fast_track_extend_and_evaluate_queue_, bestmove, black)
          /\ my_pv_cache_' = {}
          /\ initial_purge_run' = FALSE
          /\ phase' = "idle"
          /\ pc' = [t \in Threads |-> "none"]
          /\ last_op' = OpK("auxwait", <<persistent_queue_of_nodes,
                                          fast_track_extend_and_evaluate_queue_>>)
          /\ UNCHANGED aborted
  /\ UNCHANGED <<searchNo, root_node_, stop_, stopper, OptionsOnRoot,
                 size_of_queue_at_start, starting_depth_of_PVs_, amount_of_support_for_PVs_,
                 thread_counter, vector_of_auxengine_ready_, final_purge_run, New_Game,
                 helper_vars, our_index, cur_n, cur_depth, cur_line, stopping, second_stopping, root_is_queued,
                 fresh, aux_tag, pushed_keys>>

(***************************************************************************)
(* Search::AuxEngineWorker(), thread t.                                    *)
(***************************************************************************)
\* Infinite without the test of the index (lines 379 and 769)
Infinite_AnyIndex(t) == OptionsOnRoot

\* infinite_exploration: thread 0 with AuxEngineOptionsOnRoot set
Infinite(t) == our_index[t] = 0 /\ OptionsOnRoot

Goto(t, p) == pc' = [pc EXCEPT ![t] = p]

\* variant of IndexFromCounter: every worker takes index 0
IndexFromCounter_Zero(counter) == 0

\* long unsigned int our_index = search_stats_->thread_counter (line 104)
IndexFromCounter(counter) == counter

\* variant of MustStart: a helper is started at every entry
MustStart_Always(idx, ready) == TRUE

\* the test of lines 128-133: no helper has been started for this index
MustStart(idx, ready) == idx + 1 > Len(ready) \/ ~ready[idx + 1]

\* entry, under pure_stats_mutex_: take an index, return early, or register
W_Enter(t) ==
  /\ ~aborted
  /\ UNCHANGED <<lock_vars, result_vars, query_vars>>
  /\ pc[t] = "start"
  /\ \A u \in Threads : u < t => pc[u] # "start"
  /\ last_op' = NoOp
  /\ LET idx == IndexFromCounter(thread_counter)
     IN IF (idx = 0 /\ final_purge_run) \/ stop_
        THEN /\ Goto(t, "done")
             /\ UNCHANGED <<thread_counter, vector_of_auxengine_ready_, our_index, fresh,
                            New_Game, size_of_queue_at_start>>
        ELSE /\ thread_counter' = thread_counter + 1
             /\ our_index' = [our_index EXCEPT ![t] = idx]
             /\ IF MustStart(idx, vector_of_auxengine_ready_)
                THEN /\ vector_of_auxengine_ready_' = Append(vector_of_auxengine_ready_, TRUE)
                     /\ fresh' = [fresh EXCEPT ![t] = TRUE]
                     /\ Goto(t, "handshake")
                     /\ UNCHANGED <<New_Game, size_of_queue_at_start>>
                ELSE /\ UNCHANGED <<vector_of_auxengine_ready_, fresh>>
                     /\ IF idx # 0
                        THEN /\ Goto(t, "loop")
                             /\ UNCHANGED <<New_Game, size_of_queue_at_start>>
                        ELSE IF New_Game
                        THEN /\ New_Game' = FALSE
                             /\ size_of_queue_at_start' = 0
                             /\ Goto(t, "purge_ng_pv")
                        ELSE /\ Goto(t, "purge_nodes")
                             /\ UNCHANGED <<New_Game, size_of_queue_at_start>>
  /\ UNCHANGED <<search_vars, persistent_queue_of_nodes, pv_vars, initial_purge_run,
                 final_purge_run, helper_vars, cur_n, cur_depth, cur_line, stopping, second_stopping,
                 root_is_queued, my_pv_cache_, aux_tag, pushed_keys, end_pairs>>

\* a fresh helper: auxengine_stopped_.push_back(true), then setoption and uci are sent
W_PushStopped(t) ==
  /\ ~aborted
  /\ UNCHANGED <<lock_vars, result_vars, query_vars>>
  /\ pc[t] = "handshake"
  /\ auxengine_stopped_' = Append(auxengine_stopped_, TRUE)
  /\ Goto(t, "uci")
  /\ last_op' = NoOp
  /\ UNCHANGED <<search_vars, queue_vars, pv_vars, stats_vars, helper, num_stop, stop_midstream,
                 our_index, cur_n,
                 cur_depth, cur_line, stopping, second_stopping, root_is_queued, fresh, my_pv_cache_, aux_tag,
                 pushed_keys, end_pairs>>

\* uciok has arrived; thread 0 initialises the per-move state under pure_stats_mutex_
W_PostHandshake(t) ==
  /\ ~aborted
  /\ UNCHANGED <<lock_vars, result_vars, query_vars>>
  /\ pc[t] = "uci"
  /\ IF our_index[t] = 0
     THEN /\ initial_purge_run' = TRUE
          /\ my_pv_cache_' = {}
          /\ New_Game' = FALSE
     ELSE UNCHANGED <<initial_purge_run, my_pv_cache_, New_Game>>
  /\ Goto(t, "loop")
  /\ last_op' = NoOp
  /\ UNCHANGED <<search_vars, queue_vars, pv_vars, thread_counter, vector_of_auxengine_ready_,
                 final_purge_run, helper_vars, our_index, cur_n, cur_depth, cur_line, stopping, second_stopping,
                 root_is_queued, fresh, aux_tag, pushed_keys, end_pairs>>

\* thread 0 of a new game, helpers already started: the PV queue is emptied
W_PurgeNewGamePV(t) ==
  /\ ~aborted
  /\ UNCHANGED <<lock_vars, result_vars, query_vars>>
  /\ pc[t] = "purge_ng_pv"
  /\ fast_track_extend_and_evaluate_queue_' = <<>>
  /\ Goto(t, "purge_nodes_ng")
  /\ last_op' = NoOp
  /\ UNCHANGED <<search_vars, queue_vars, starting_depth_of_PVs_, amount_of_support_for_PVs_,
                 stats_vars, helper_vars, our_index, cur_n, cur_depth, cur_line, stopping, second_stopping,
                 root_is_queued, fresh, my_pv_cache_, aux_tag, pushed_keys, end_pairs>>

\* thread 0, under auxengine_mutex_: the start-of-move purge of the node queue
W_PurgeNodes(t) ==
  /\ ~aborted
  /\ UNCHANGED <<lock_vars, result_vars, query_vars>>
  /\ pc[t] \in {"purge_nodes", "purge_nodes_ng"}
  /\ LET q0 == IF pc[t] = "purge_nodes_ng" THEN <<>> ELSE persistent_queue_of_nodes
         k == size_of_queue_at_start
     IN IF final_purge_run
        THEN /\ persistent_queue_of_nodes' = q0
             /\ Goto(t, "purge_done")
             /\ last_op' = NoOp
             /\ UNCHANGED aborted
        ELSE IF Len(q0) < StartPurgePopped(k)
        THEN \* front() and pop() of an empty queue
             /\ aborted' = TRUE
             /\ last_op' = NoOp
             /\ UNCHANGED <<persistent_queue_of_nodes, pc>>
        ELSE /\ persistent_queue_of_nodes' = StartPurgeNodes(q0, k, root_node_)
             /\ Goto(t, "purge_pvs")
             /\ last_op' = OpK("start_purge_nodes",
                               <<q0, StartPurgeKept(q0, k, root_node_)>>)
             /\ UNCHANGED aborted
  /\ UNCHANGED <<phase, searchNo, root_node_, stop_, stopper, final_bestmove_,
                 OptionsOnRoot, size_of_queue_at_start, pv_vars, stats_vars, helper_vars,
                 our_index, cur_n, cur_depth, cur_line, stopping, second_stopping, root_is_queued, fresh,
                 my_pv_cache_, aux_tag, pushed_keys, end_pairs>>

\* thread 0, under fast_track_extend_and_evaluate_queue_mutex_: the start-of-move purge
\* of the PV queue
W_PurgePVs(t) ==
  /\ ~aborted
  /\ UNCHANGED <<lock_vars, result_vars, query_vars>>
  /\ pc[t] = "purge_pvs"
  /\ fast_track_extend_and_evaluate_queue_' =
       StartPurgePV(fast_track_extend_and_evaluate_queue_, root_node_)
  /\ Goto(t, "purge_done")
  /\ last_op' = OpK("start_purge_pvs", fast_track_extend_and_evaluate_queue_)
  /\ UNCHANGED <<search_vars, queue_vars, starting_depth_of_PVs_, amount_of_support_for_PVs_,
                 stats_vars, helper_vars, our_index, cur_n, cur_depth, cur_line, stopping, second_stopping,
                 root_is_queued, fresh, my_pv_cache_, aux_tag, pushed_keys, end_pairs>>

\* thread 0, under pure_stats_mutex_: the other threads are told the purge is done
W_PurgeDone(t) ==
  /\ ~aborted
  /\ UNCHANGED <<lock_vars, result_vars, query_vars>>
  /\ pc[t] = "purge_done"
  /\ initial_purge_run' = TRUE
  /\ Goto(t, "loop")
  /\ last_op' = NoOp
  /\ UNCHANGED <<search_vars, queue_vars, pv_vars, thread_counter, vector_of_auxengine_ready_,
                 final_purge_run, New_Game, helper_vars, our_index, cur_n, cur_depth, cur_line,
                 stopping, second_stopping, root_is_queued, fresh, my_pv_cache_, aux_tag, pushed_keys, end_pairs>>

\* top of the while loop: leave on stop_; thread 0 marks the root pending (root-infinite
\* mode) or queues the root once (kickstart)
W_Loop(t) ==
  /\ ~aborted
  /\ UNCHANGED <<lock_vars, result_vars, query_vars>>
  /\ pc[t] = "loop"
  /\ IF stop_
     THEN /\ Goto(t, "exit")
          /\ last_op' = NoOp
          /\ UNCHANGED <<persistent_queue_of_nodes, aux_tag, cur_n, root_is_queued>>
     ELSE IF Infinite(t)
     THEN /\ aux_tag' = [aux_tag EXCEPT ![root_node_] = PENDING]
          /\ cur_n' = [cur_n EXCEPT ![t] = root_node_]
          /\ Goto(t, "do_start")
          /\ last_op' = NoOp
          /\ UNCHANGED <<persistent_queue_of_nodes, root_is_queued>>
     ELSE IF our_index[t] = 0 /\ ~root_is_queued[t]
     THEN /\ IF ~final_purge_run /\ CanPushNode(persistent_queue_of_nodes)
             THEN /\ persistent_queue_of_nodes' = Append(persistent_queue_of_nodes, root_node_)
                  /\ last_op' = NoOp
             ELSE /\ UNCHANGED persistent_queue_of_nodes
                  /\ last_op' = NoOp
          /\ root_is_queued' = [root_is_queued EXCEPT ![t] = TRUE]
          /\ Goto(t, "wait")
          /\ UNCHANGED <<aux_tag, cur_n>>
     ELSE /\ Goto(t, "wait")
          /\ last_op' = NoOp
          /\ UNCHANGED <<persistent_queue_of_nodes, aux_tag, cur_n, root_is_queued>>
  /\ UNCHANGED <<search_vars, size_of_queue_at_start, pv_vars, stats_vars, helper_vars,
                 our_index, cur_depth, cur_line, stopping, second_stopping, fresh, my_pv_cache_, pushed_keys,
                 end_pairs>>

\* auxengine_cv_.wait(stop_ || !queue.empty()) under auxengine_mutex_, then leave or dequeue
W_Wait(t) ==
  /\ ~aborted
  /\ UNCHANGED <<lock_vars, result_vars, query_vars>>
  /\ pc[t] = "wait"
  /\ stop_ \/ persistent_queue_of_nodes # <<>>
  /\ IF stop_
     THEN /\ thread_counter' = thread_counter - 1
          /\ Goto(t, "done")
          /\ last_op' = NoOp
          /\ UNCHANGED <<persistent_queue_of_nodes, cur_n>>
     ELSE /\ cur_n' = [cur_n EXCEPT ![t] = Head(persistent_queue_of_nodes)]
          /\ persistent_queue_of_nodes' = Tail(persistent_queue_of_nodes)
          /\ Goto(t, "do_start")
          /\ last_op' = OpK("dequeued", t)
          /\ UNCHANGED thread_counter
  /\ UNCHANGED <<search_vars, size_of_queue_at_start, pv_vars, vector_of_auxengine_ready_,
                 initial_purge_run, final_purge_run, New_Game, helper_vars, our_index,
                 cur_depth, cur_line, stopping, second_stopping, root_is_queued, fresh, my_pv_cache_, aux_tag,
                 pushed_keys, end_pairs>>

\* after the while loop, under pure_stats_mutex_: thread_counter--
W_Exit(t) ==
  /\ ~aborted
  /\ UNCHANGED <<lock_vars, result_vars, query_vars>>
  /\ pc[t] = "exit"
  /\ thread_counter' = thread_counter - 1
  /\ Goto(t, "done")
  /\ last_op' = NoOp
  /\ UNCHANGED <<search_vars, queue_vars, pv_vars, vector_of_auxengine_ready_,
                 initial_purge_run, final_purge_run, New_Game, helper_vars, our_index, cur_n,
                 cur_depth, cur_line, stopping, second_stopping, root_is_queued, fresh, my_pv_cache_, aux_tag,
                 pushed_keys, end_pairs>>

(***************************************************************************)
(* Search::DoAuxEngine(n, index), called by thread t.                      *)
(***************************************************************************)
\* the stop_ tests before the depth walk, and the walk from n up to root_node_
W_DoStart(t) ==
  /\ ~aborted
  /\ UNCHANGED <<lock_vars, result_vars, query_vars>>
  /\ pc[t] = "do_start"
  /\ last_op' = NoOp
  /\ IF stop_
     THEN /\ Goto(t, "loop")
          /\ ClearLocals(t)
          /\ UNCHANGED aborted
     ELSE IF ~IsPrefix(root_node_, cur_n[t])
     THEN \* the walk runs past the first root: GetParent() of a null pointer
          /\ aborted' = TRUE
          /\ UNCHANGED <<pc, cur_n, cur_depth, cur_line, stopping, second_stopping>>
     ELSE /\ cur_depth' = [cur_depth EXCEPT ![t] = Len(cur_n[t]) - Len(root_node_)]
          /\ Goto(t, "do_gate")
          /\ UNCHANGED <<aborted, cur_n, cur_line, stopping, second_stopping>>
  /\ UNCHANGED <<phase, searchNo, root_node_, stop_, stopper, final_bestmove_,
                 OptionsOnRoot, queue_vars, pv_vars, stats_vars, helper_vars, our_index,
                 root_is_queued, fresh, my_pv_cache_, aux_tag, pushed_keys, end_pairs>>

\* W_DoGate without the sample of line 684: a deep node always goes back behind the
\* nodes that are queued
W_DoGate_NoSample(t) ==
  /\ ~aborted
  /\ UNCHANGED <<lock_vars, result_vars, query_vars>>
  /\ pc[t] = "do_gate"
  /\ IF stop_ \/ final_purge_run
     THEN /\ aux_tag' = [aux_tag EXCEPT ![cur_n[t]] = DONE]
          /\ Goto(t, "loop")
          /\ ClearLocals(t)
          /\ last_op' = NoOp
          /\ UNCHANGED persistent_queue_of_nodes
     ELSE IF /\ Len(persistent_queue_of_nodes) > 0
             /\ cur_depth[t] > 0
             /\ cur_depth[t] > AuxEngineMaxDepth
     THEN /\ persistent_queue_of_nodes' = Append(persistent_queue_of_nodes, cur_n[t])
          /\ Goto(t, "loop")
          /\ ClearLocals(t)
          /\ last_op' = Op("reinserted", cur_n[t], TRUE)
          /\ UNCHANGED aux_tag
     ELSE /\ Goto(t, "do_submit")
          /\ last_op' = NoOp
          /\ UNCHANGED <<persistent_queue_of_nodes, aux_tag, cur_n, cur_depth, cur_line,
                         stopping, second_stopping>>
  /\ UNCHANGED <<search_vars, size_of_queue_at_start, pv_vars, stats_vars, helper_vars,
                 our_index, root_is_queued, fresh, my_pv_cache_, pushed_keys, end_pairs>>

\* W_DoGate without the depth test of lines 680-681: any dequeued node may go back
W_DoGate_AnyDepth(t) ==
  /\ ~aborted
  /\ UNCHANGED <<lock_vars, result_vars, query_vars>>
  /\ pc[t] = "do_gate"
  /\ \/ /\ stop_ \/ final_purge_run
        /\ aux_tag' = [aux_tag EXCEPT ![cur_n[t]] = DONE]
        /\ Goto(t, "loop")
        /\ ClearLocals(t)
        /\ last_op' = NoOp
        /\ UNCHANGED persistent_queue_of_nodes
     \/ /\ ~(stop_ \/ final_purge_run)
        /\ Len(persistent_queue_of_nodes) > 0
        /\ persistent_queue_of_nodes' = Append(persistent_queue_of_nodes, cur_n[t])
        /\ Goto(t, "loop")
        /\ ClearLocals(t)
        /\ last_op' = Op("reinserted", cur_n[t], TRUE)
        /\ UNCHANGED aux_tag
     \/ /\ ~(stop_ \/ final_purge_run)
        /\ Goto(t, "do_submit")
        /\ last_op' = NoOp
        /\ UNCHANGED <<persistent_queue_of_nodes, aux_tag, cur_n, cur_depth, cur_line,
                       stopping, second_stopping>>
  /\ UNCHANGED <<search_vars, size_of_queue_at_start, pv_vars, stats_vars, helper_vars,
                 our_index, root_is_queued, fresh, my_pv_cache_, pushed_keys, end_pairs>>

\* under auxengine_mutex_: give up on stop_ or final purge, or reinsert a deep node,
\* or go on to query the helper.  The sample of distribution(1,0) is any value.
W_DoGate(t) ==
  /\ ~aborted
  /\ UNCHANGED <<lock_vars, result_vars, query_vars>>
  /\ pc[t] = "do_gate"
  /\ \/ /\ stop_ \/ final_purge_run
        /\ aux_tag' = [aux_tag EXCEPT ![cur_n[t]] = DONE]
        /\ Goto(t, "loop")
        /\ ClearLocals(t)
        /\ last_op' = NoOp
        /\ UNCHANGED persistent_queue_of_nodes
     \/ /\ ~(stop_ \/ final_purge_run)
        /\ Len(persistent_queue_of_nodes) > 0
        /\ cur_depth[t] > 0
        /\ cur_depth[t] > AuxEngineMaxDepth
        /\ persistent_queue_of_nodes' = Append(persistent_queue_of_nodes, cur_n[t])
        /\ Goto(t, "loop")
        /\ ClearLocals(t)
        /\ last_op' = Op("reinserted", cur_n[t], TRUE)
        /\ UNCHANGED aux_tag
     \/ /\ ~(stop_ \/ final_purge_run)
        /\ Goto(t, "do_submit")
        /\ last_op' = NoOp
        /\ UNCHANGED <<persistent_queue_of_nodes, aux_tag, cur_n, cur_depth, cur_line,
                       stopping, second_stopping>>
  /\ UNCHANGED <<search_vars, size_of_queue_at_start, pv_vars, stats_vars, helper_vars,
                 our_index, root_is_queued, fresh, my_pv_cache_, pushed_keys, end_pairs>>

\* under auxengine_stopped_mutex_: return on stop_, else write `position` and `go` and
\* clear auxengine_stopped_[index]
W_DoSubmit(t) ==
  /\ ~aborted
  /\ UNCHANGED <<lock_vars, result_vars, query_vars>>
  /\ pc[t] = "do_submit"
  /\ last_op' = NoOp
  /\ IF stop_
     THEN /\ Goto(t, "loop")
          /\ ClearLocals(t)
          /\ UNCHANGED <<helper_vars, aborted>>
     ELSE IF our_index[t] + 1 > Len(auxengine_stopped_)
             THEN \* auxengine_stopped_[index] beyond the end of the vector
                  /\ aborted' = TRUE
                  /\ UNCHANGED <<helper_vars, pc, cur_n, cur_depth, cur_line, stopping, second_stopping>>
             ELSE /\ helper' = [helper EXCEPT ![our_index[t]] =
                                  IF Infinite(t)
                                  THEN "go_inf" ELSE "go_time"]
                  /\ auxengine_stopped_' =
                       [auxengine_stopped_ EXCEPT ![our_index[t] + 1] = FALSE]
                  /\ num_stop' = [num_stop EXCEPT ![our_index[t]] = 0]
                  /\ stop_midstream' = [stop_midstream EXCEPT ![our_index[t]] = FALSE]
                  /\ Goto(t, "do_read")
                  /\ UNCHANGED <<aborted, cur_n, cur_depth, cur_line, stopping, second_stopping>>
  /\ UNCHANGED <<phase, searchNo, root_node_, stop_, stopper, final_bestmove_, OptionsOnRoot,
                 queue_vars, pv_vars, stats_vars, our_index, root_is_queued, fresh,
                 my_pv_cache_, aux_tag, pushed_keys, end_pairs>>

\* the helper writes an info line; the worker reads it, then tests stop_
W_ReadInfo(t, l) ==
  /\ ~aborted
  /\ UNCHANGED <<lock_vars, result_vars, query_vars>>
  /\ pc[t] = "do_read"
  /\ helper[our_index[t]] \in {"go_time", "go_inf", "stopping"}
  /\ cur_line' = [cur_line EXCEPT ![t] = l]
  /\ last_op' = NoOp
  /\ IF ~stopping[t]
     THEN IF stop_
          THEN /\ stopping' = [stopping EXCEPT ![t] = TRUE]
               /\ IF ~auxengine_stopped_[our_index[t] + 1]
                  THEN /\ helper' = [helper EXCEPT ![our_index[t]] = "stopping"]
                       /\ num_stop' = [num_stop EXCEPT ![our_index[t]] = @ + 1]
                       /\ auxengine_stopped_' =
                            [auxengine_stopped_ EXCEPT ![our_index[t] + 1] = TRUE]
                       /\ UNCHANGED stop_midstream
                  ELSE UNCHANGED helper_vars
               /\ UNCHANGED <<pc, second_stopping>>
          ELSE /\ IF Infinite(t)
                  THEN Goto(t, "enc_probe_inf")
                  ELSE UNCHANGED pc
               /\ UNCHANGED <<stopping, second_stopping, helper_vars>>
     ELSE IF ~second_stopping[t]
     THEN /\ second_stopping' = [second_stopping EXCEPT ![t] = TRUE]
          /\ UNCHANGED <<stopping, helper_vars, pc>>
     ELSE \* a further line after the stop was seen: `stop` is written again, with no
          \* test of auxengine_stopped_[index]
          /\ num_stop[our_index[t]] < MaxStopsCounted
          /\ num_stop' = [num_stop EXCEPT ![our_index[t]] = @ + 1]
          /\ helper' = [helper EXCEPT ![our_index[t]] = "stopping"]
          /\ UNCHANGED <<stopping, second_stopping, auxengine_stopped_, stop_midstream, pc>>
  /\ UNCHANGED <<search_vars, queue_vars, pv_vars, stats_vars, our_index, cur_n, cur_depth,
                 root_is_queued, fresh, my_pv_cache_, aux_tag, pushed_keys, end_pairs>>

\* the helper writes bestmove (after its time, or after `stop`); the loop ends
W_ReadBest(t) ==
  /\ ~aborted
  /\ UNCHANGED <<lock_vars, result_vars, query_vars>>
  /\ pc[t] = "do_read"
  /\ helper[our_index[t]] \in {"go_time", "stopping"}
  /\ helper' = [helper EXCEPT ![our_index[t]] = "idle"]
  /\ num_stop' = [num_stop EXCEPT ![our_index[t]] = 0]
  /\ UNCHANGED stop_midstream
  /\ IF stopping[t]
     THEN /\ Goto(t, "loop")
          /\ ClearLocals(t)
          /\ last_op' = OpK("query_stopped", num_stop[our_index[t]])
          /\ UNCHANGED auxengine_stopped_
     ELSE /\ auxengine_stopped_' = [auxengine_stopped_ EXCEPT ![our_index[t] + 1] = TRUE]
          /\ last_op' = NoOp
          /\ IF cur_line[t] = NoLine
             THEN /\ Goto(t, "loop")
                  /\ ClearLocals(t)
             ELSE /\ Goto(t, "enc_probe")
                  /\ UNCHANGED <<cur_n, cur_depth, cur_line, stopping, second_stopping>>
  /\ UNCHANGED <<search_vars, queue_vars, pv_vars, stats_vars, our_index, root_is_queued,
                 fresh, my_pv_cache_, aux_tag, pushed_keys, end_pairs>>

(***************************************************************************)
(* Search::AuxEncode_and_Enqueue(line, depth, ..., require_some_depth).    *)
(***************************************************************************)
\* where the call returns to: the read loop (info line of an infinite query) or the
\* worker loop (last line of a finished query)
EncReturn(t) ==
  IF pc[t] \in {"enc_probe_inf", "enc_push_inf"}
  THEN /\ Goto(t, "do_read")
       /\ UNCHANGED <<cur_n, cur_depth, cur_line, stopping, second_stopping>>
  ELSE /\ Goto(t, "loop")
       /\ ClearLocals(t)

\* the stop_ test, the parse, and the probe-and-insert under my_pv_cache_mutex_
W_EncProbe(t) ==
  /\ ~aborted
  /\ UNCHANGED <<lock_vars, result_vars, query_vars>>
  /\ pc[t] \in {"enc_probe", "enc_probe_inf"}
  /\ LET pv_moves == PvMoves(cur_line[t], pc[t] = "enc_probe_inf")
     IN IF stop_ \/ Len(pv_moves) < min_pv_size
        THEN /\ EncReturn(t)
             /\ last_op' = NoOp
             /\ UNCHANGED my_pv_cache_
        ELSE IF CacheSeen(my_pv_cache_, CacheKey(pv_moves))
        THEN /\ EncReturn(t)
             /\ last_op' = NoOp
             /\ UNCHANGED my_pv_cache_
        ELSE /\ my_pv_cache_' = my_pv_cache_ \cup {CacheKey(pv_moves)}
             /\ Goto(t, IF pc[t] = "enc_probe_inf" THEN "enc_push_inf" ELSE "enc_push")
             /\ last_op' = NoOp
             /\ UNCHANGED <<cur_n, cur_depth, cur_line, stopping, second_stopping>>
  /\ UNCHANGED <<search_vars, queue_vars, pv_vars, stats_vars, helper_vars, our_index,
                 root_is_queued, fresh, aux_tag, pushed_keys, end_pairs>>

\* under fast_track_extend_and_evaluate_queue_mutex_: push onto the three queues, or drop
W_EncPush(t) ==
  /\ ~aborted
  /\ UNCHANGED <<lock_vars, result_vars, query_vars>>
  /\ pc[t] \in {"enc_push", "enc_push_inf"}
  /\ LET pv_moves == PvMoves(cur_line[t], pc[t] = "enc_push_inf")
         line == MovesFromRoot(root_node_, cur_n[t]) \o pv_moves
     IN IF CanPushPV(fast_track_extend_and_evaluate_queue_)
        THEN /\ fast_track_extend_and_evaluate_queue_' =
                  Append(fast_track_extend_and_evaluate_queue_, line)
             /\ starting_depth_of_PVs_' = Append(starting_depth_of_PVs_, cur_depth[t])
             /\ amount_of_support_for_PVs_' =
                  Append(amount_of_support_for_PVs_, cur_line[t].nodes)
             /\ pushed_keys' = Append(pushed_keys, CacheKey(pv_moves))
             /\ last_op' = OpK("pv_pushed", t)
        ELSE /\ UNCHANGED <<pv_vars, pushed_keys>>
             /\ last_op' = OpK("pv_dropped", t)
  /\ EncReturn(t)
  /\ UNCHANGED <<search_vars, queue_vars, stats_vars, helper_vars, our_index, root_is_queued,
                 fresh, my_pv_cache_, aux_tag, end_pairs>>

(***************************************************************************)
(* The specifications.                                                     *)
(***************************************************************************)
\* the steps of a search of a game in progress
GameStep ==
  \/ StartSearch
  \/ \E n \in Nodes : AuxMaybeEnqueueNode(n)
  \/ SetStop
  \/ StopHelpers
  \/ ConsumePV
  \/ AuxWait
  \/ \E t \in Threads :
       \/ W_Enter(t)
       \/ W_PushStopped(t)
       \/ W_PostHandshake(t)
       \/ W_PurgeNodes(t)
       \/ W_PurgePVs(t)
       \/ W_PurgeDone(t)
       \/ W_Loop(t)
       \/ W_Wait(t)
       \/ W_Exit(t)
       \/ W_DoStart(t)
       \/ W_DoGate(t)
       \/ W_DoSubmit(t)
       \/ \E l \in InfoLines : W_ReadInfo(t, l)
       \/ W_ReadBest(t)
       \/ W_EncProbe(t)
       \/ W_EncPush(t)

\* no step is modelled after undefined behaviour (every action requires ~aborted)
Next == GameStep

Spec == Init /\ [][Next]_vars

\* a step of worker thread t; the helper's info lines are up to the helper
WorkerStep(t) ==
  \/ W_Enter(t) \/ W_PushStopped(t) \/ W_PostHandshake(t)
  \/ W_PurgeNodes(t) \/ W_PurgePVs(t) \/ W_PurgeDone(t)
  \/ W_Loop(t) \/ W_Wait(t) \/ W_Exit(t)
  \/ W_DoStart(t) \/ W_DoGate(t) \/ W_DoSubmit(t) \/ W_ReadBest(t)
  \/ W_EncProbe(t) \/ W_EncPush(t)

\* The threads of the engine run on: a search is started, and every worker step, the
\* stopper's `stop` commands and the driver's AuxWait() are taken when they stay enabled.
\* Nominations, the consumption of PVs and the arrival of stop (a search may be
\* infinite) are up to the environment.
Fairness ==
  /\ WF_vars(StartSearch)
  /\ WF_vars(StopHelpers)
  /\ WF_vars(AuxWait)
  /\ \A t \in Threads : WF_vars(WorkerStep(t))
  \* the random sample of the reinsertion does not come out for reinsertion for ever
  /\ \A t \in Threads : SF_vars(W_DoGate(t) /\ pc'[t] = "do_submit")

FairSpec == Init /\ [][Next]_vars /\ Fairness

\* the first search of a new game with the helpers already started
InitNewGame ==
  /\ InitCommon
  /\ final_bestmove_ = ParseMoveOf(1, IsBlackToMove(<<1>>))
  /\ persistent_queue_of_nodes = AuxWaitNodes(<<<<1, 1, 1, 1>>>>, <<1>>, 1, IsBlackToMove(<<1>>))
  /\ end_pairs = Pairs(persistent_queue_of_nodes)
  /\ aux_tag = [m \in Nodes |-> IF m = <<1, 1, 1, 1>> THEN PENDING ELSE UNSET]
  /\ vector_of_auxengine_ready_ = [i \in 1..AuxEngineInstances |-> TRUE]
  /\ auxengine_stopped_ = [i \in 1..AuxEngineInstances |-> TRUE]
  /\ final_purge_run = FALSE
  /\ New_Game = TRUE
  /\ OptionsOnRoot = FALSE
  /\ LocksIdle
  /\ ResultIdle
  /\ QueryIdle

NextNewGame == GameStep \/ \E t \in Threads : W_PurgeNewGamePV(t)

SpecNewGame == InitNewGame /\ [][NextNewGame]_vars

SpecOnRoot == InitOnRoot /\ [][Next]_vars

(***************************************************************************)
(* The locks.  The actions above take each critical section as one step;   *)
(* the actions below follow the same code one lock operation at a time.    *)
(* lpc[t] is the line of auxengine.cc thread t executes next; thread 0 is  *)
(* an MCTS thread calling AuxMaybeEnqueueNode.  nodes_mutex_ is only taken *)
(* shared by this code and is left out.                                    *)
(***************************************************************************)
\* the mutex locked by the statement at each line that locks one
LAcquires ==
  [ L69 |-> "auxengine_mutex_", L96 |-> "pure_stats_mutex_", L109 |-> "auxengine_mutex_",
    L140 |-> "auxengine_stopped_mutex_", L154 |-> "auxengine_stopped_mutex_",
    L209 |-> "pure_stats_mutex_", L217 |-> "my_pv_cache_mutex_",
    L270 |-> "auxengine_mutex_", L305 |-> "fast_track_extend_and_evaluate_queue_mutex_",
    L357 |-> "auxengine_mutex_", L363 |-> "pure_stats_mutex_",
    L406 |-> "pure_stats_mutex_", L433 |-> "auxengine_mutex_", L451 |-> "auxengine_mutex_",
    L458 |-> "pure_stats_mutex_", L479 |-> "pure_stats_mutex_",
    L589 |-> "my_pv_cache_mutex_", L617 |-> "fast_track_extend_and_evaluate_queue_mutex_",
    L668 |-> "auxengine_mutex_", L759 |-> "auxengine_stopped_mutex_",
    L829 |-> "auxengine_stopped_mutex_", L874 |-> "auxengine_stopped_mutex_" ]

\* the mutex thread t is about to lock, if its next statement locks one
LWaitsFor(t) ==
  IF lpc[t] \in DOMAIN LAcquires
       /\ (lpc[t] = "L451" => stop_ \/ persistent_queue_of_nodes # <<>>)
  THEN LAcquires[lpc[t]]
  ELSE NoMutex

LHeldBy(t) == { m \in Mutexes : mutex_owner[m] = t }

LGoto(t, l) == lpc' = [lpc EXCEPT ![t] = l]
\* m.lock() at the line lpc[t], then on to line l
LLock(t, l) ==
  /\ mutex_owner[LAcquires[lpc[t]]] = NoThread
  /\ mutex_owner' = [mutex_owner EXCEPT ![LAcquires[lpc[t]]] = t]
  /\ LGoto(t, l)
\* m.unlock(), then on to line l
LUnlock(t, m, l) ==
  /\ mutex_owner[m] = t
  /\ mutex_owner' = [mutex_owner EXCEPT ![m] = NoThread]
  /\ LGoto(t, l)
\* a statement that touches no lock
LSkip(t, l) == LGoto(t, l) /\ UNCHANGED mutex_owner

\* what the lock-level actions leave alone
lock_frame == <<phase, searchNo, root_node_, stopper, final_bestmove_, aborted, OptionsOnRoot,
                size_of_queue_at_start, pv_vars, initial_purge_run, final_purge_run, New_Game,
                helper_vars, pc, cur_depth, cur_line, stopping, second_stopping, fresh,
                my_pv_cache_, aux_tag, pushed_keys, end_pairs, last_op, result_vars,
                query_vars>>
lock_data == <<stop_, persistent_queue_of_nodes, thread_counter, vector_of_auxengine_ready_,
               our_index, root_is_queued>>

LFresh(t) ==
  \/ our_index[t] + 1 > Len(vector_of_auxengine_ready_)
  \/ ~vector_of_auxengine_ready_[our_index[t] + 1]

\* AuxEngineWorker lines 96-123 and the test of line 128
L_Entry(t) ==
  /\ lpc[t] \in {"L96", "L109", "L110", "L113", "L119"}
  /\ \/ /\ lpc[t] = "L96"
        /\ LLock(t, "L109")
        /\ our_index' = [our_index EXCEPT ![t] = thread_counter]
        /\ UNCHANGED <<stop_, persistent_queue_of_nodes, thread_counter,
                       vector_of_auxengine_ready_, root_is_queued>>
     \/ /\ lpc[t] = "L109"
        /\ LLock(t, "L110")
        /\ UNCHANGED lock_data
     \/ /\ lpc[t] = "L110"
        /\ LUnlock(t, "auxengine_mutex_",
                   IF our_index[t] = 0 /\ final_purge_run THEN "L113" ELSE "L119")
        /\ UNCHANGED lock_data
     \/ /\ lpc[t] = "L113"
        /\ LUnlock(t, "pure_stats_mutex_", "done")
        /\ UNCHANGED lock_data
     \/ /\ lpc[t] = "L119"
        /\ IF stop_
           THEN /\ LUnlock(t, "pure_stats_mutex_", "done")
                /\ UNCHANGED lock_data
           ELSE /\ thread_counter' = thread_counter + 1
                /\ IF LFresh(t)
                   THEN /\ LSkip(t, "L140")
                        /\ vector_of_auxengine_ready_' =
                             Append(vector_of_auxengine_ready_, TRUE)
                   ELSE /\ LSkip(t, IF our_index[t] = 0 THEN "L269" ELSE "L372")
                        /\ UNCHANGED vector_of_auxengine_ready_
                /\ UNCHANGED <<stop_, persistent_queue_of_nodes, our_index, root_is_queued>>
  /\ UNCHANGED <<cur_n, lock_frame>>

\* a fresh helper, lines 136-232: the handshake, then thread 0 clears the PV cache
L_Fresh(t) ==
  /\ \/ lpc[t] = "L140" /\ LLock(t, "L142")
     \/ lpc[t] = "L142" /\ LUnlock(t, "auxengine_stopped_mutex_", "L152")
     \/ lpc[t] = "L152" /\ LUnlock(t, "pure_stats_mutex_", "L154")
     \/ lpc[t] = "L154" /\ LLock(t, "L156")
     \/ lpc[t] = "L156" /\ LUnlock(t, "auxengine_stopped_mutex_", "L209")
     \/ lpc[t] = "L209" /\ LLock(t, IF our_index[t] = 0 THEN "L217" ELSE "L372")
     \/ lpc[t] = "L217" /\ LLock(t, "L219")
     \/ lpc[t] = "L219" /\ LUnlock(t, "my_pv_cache_mutex_", "L372")
  /\ UNCHANGED <<lock_data, cur_n, lock_frame>>

\* thread 0 with started helpers, lines 267-366: the start-of-move purges
L_Purge(t) ==
  /\ \/ lpc[t] = "L269" /\ LUnlock(t, "pure_stats_mutex_", "L270")
     \/ lpc[t] = "L270" /\ LLock(t, IF final_purge_run THEN "L362" ELSE "L304")
     \/ lpc[t] = "L304" /\ LUnlock(t, "auxengine_mutex_", "L305")
     \/ lpc[t] = "L305" /\ LLock(t, "L356")
     \/ lpc[t] = "L356"
          /\ LUnlock(t, "fast_track_extend_and_evaluate_queue_mutex_", "L357")
     \/ lpc[t] = "L357" /\ LLock(t, "L362")
     \/ lpc[t] = "L362" /\ LUnlock(t, "auxengine_mutex_", "L363")
     \/ lpc[t] = "L363" /\ LLock(t, "L372")
  /\ UNCHANGED <<lock_data, cur_n, lock_frame>>

\* lines 372-447: the while loop up to the wait (time-limited mode)
L_Loop(t) ==
  /\ lpc[t] \in {"L372", "L377", "L406", "L408", "L426", "L433", "L439"}
  /\ \/ /\ lpc[t] = "L372"
        /\ LUnlock(t, "pure_stats_mutex_", "L377")
        /\ root_is_queued' = [root_is_queued EXCEPT ![t] = FALSE]
        /\ UNCHANGED <<stop_, persistent_queue_of_nodes, thread_counter,
                       vector_of_auxengine_ready_, our_index>>
     \/ /\ lpc[t] = "L377"
        /\ LSkip(t, IF stop_ THEN "L479" ELSE "L406")
        /\ UNCHANGED lock_data
     \/ /\ lpc[t] = "L406"
        /\ LLock(t, "L408")
        /\ UNCHANGED lock_data
     \/ /\ lpc[t] = "L408"
        /\ LUnlock(t, "pure_stats_mutex_", "L426")
        /\ UNCHANGED lock_data
     \/ /\ lpc[t] = "L426"
        /\ LSkip(t, IF our_index[t] = 0 /\ ~root_is_queued[t] THEN "L433" ELSE "L451")
        /\ UNCHANGED lock_data
     \/ /\ lpc[t] = "L433"
        /\ LLock(t, "L439")
        /\ persistent_queue_of_nodes' =
             IF ~final_purge_run /\ CanPushNode(persistent_queue_of_nodes)
             THEN Append(persistent_queue_of_nodes, root_node_)
             ELSE persistent_queue_of_nodes
        /\ UNCHANGED <<stop_, thread_counter, vector_of_auxengine_ready_, our_index,
                       root_is_queued>>
     \/ /\ lpc[t] = "L439"
        /\ LUnlock(t, "auxengine_mutex_", "L451")
        /\ root_is_queued' = [root_is_queued EXCEPT ![t] = TRUE]
        /\ UNCHANGED <<stop_, persistent_queue_of_nodes, thread_counter,
                       vector_of_auxengine_ready_, our_index>>
  /\ UNCHANGED <<cur_n, lock_frame>>

\* lines 450-471 with the lock left out: the wait returns when its predicate
\* holds, and front() and pop() run unprotected
L_Wait_NoLock(t) ==
  /\ lpc[t] \in {"L451", "L455", "L469", "L470"}
  /\ \/ /\ lpc[t] = "L451"
        /\ stop_ \/ persistent_queue_of_nodes # <<>>
        /\ LSkip(t, "L455")
        /\ UNCHANGED <<lock_data, cur_n>>
     \/ /\ lpc[t] = "L455"
        /\ LSkip(t, IF stop_ THEN "L458" ELSE "L469")
        /\ UNCHANGED <<lock_data, cur_n>>
     \/ /\ lpc[t] = "L469"
        /\ cur_n' = [cur_n EXCEPT ![t] = IF persistent_queue_of_nodes # <<>>
                                         THEN Head(persistent_queue_of_nodes) ELSE Null]
        /\ LSkip(t, "L470")
        /\ UNCHANGED lock_data
     \/ /\ lpc[t] = "L470"
        /\ persistent_queue_of_nodes' = IF persistent_queue_of_nodes # <<>>
                                        THEN Tail(persistent_queue_of_nodes) ELSE <<>>
        /\ LSkip(t, "L668")
        /\ UNCHANGED <<stop_, thread_counter, vector_of_auxengine_ready_, our_index,
                       root_is_queued, cur_n>>
  /\ UNCHANGED lock_frame

\* lines 450-471: the wait on auxengine_cv_ (the lock is re-acquired when the
\* predicate holds), then n = front() and pop(), and the lock is released
L_Wait(t) ==
  /\ lpc[t] \in {"L451", "L455", "L469", "L470"}
  /\ \/ /\ lpc[t] = "L451"
        /\ stop_ \/ persistent_queue_of_nodes # <<>>
        /\ LLock(t, "L455")
        /\ UNCHANGED <<lock_data, cur_n>>
     \/ /\ lpc[t] = "L455"
        /\ LSkip(t, IF stop_ THEN "L458" ELSE "L469")
        /\ UNCHANGED <<lock_data, cur_n>>
     \/ /\ lpc[t] = "L469"
        /\ cur_n' = [cur_n EXCEPT ![t] = IF persistent_queue_of_nodes # <<>>
                                         THEN Head(persistent_queue_of_nodes) ELSE Null]
        /\ LSkip(t, "L470")
        /\ UNCHANGED lock_data
     \/ /\ lpc[t] = "L470"
        /\ persistent_queue_of_nodes' = IF persistent_queue_of_nodes # <<>>
                                        THEN Tail(persistent_queue_of_nodes) ELSE <<>>
        /\ LUnlock(t, "auxengine_mutex_", "L668")
        /\ UNCHANGED <<stop_, thread_counter, vector_of_auxengine_ready_, our_index,
                       root_is_queued, cur_n>>
  /\ UNCHANGED lock_frame

\* the two ways out: lines 455-468 (inside the scope of the unique_lock on
\* auxengine_mutex_) and lines 477-488
L_Exit(t) ==
  /\ lpc[t] \in {"L458", "L466", "L467", "L479", "L487"}
  /\ \/ /\ lpc[t] = "L458"
        /\ LLock(t, "L466")
        /\ UNCHANGED lock_data
     \/ /\ lpc[t] = "L466"
        /\ LUnlock(t, "pure_stats_mutex_", "L467")
        /\ thread_counter' = thread_counter - 1
        /\ UNCHANGED <<stop_, persistent_queue_of_nodes, vector_of_auxengine_ready_,
                       our_index, root_is_queued>>
     \/ /\ lpc[t] = "L467"
        /\ LUnlock(t, "auxengine_mutex_", "done")
        /\ UNCHANGED lock_data
     \/ /\ lpc[t] = "L479"
        /\ LLock(t, "L487")
        /\ UNCHANGED lock_data
     \/ /\ lpc[t] = "L487"
        /\ LUnlock(t, "pure_stats_mutex_", "done")
        /\ thread_counter' = thread_counter - 1
        /\ UNCHANGED <<stop_, persistent_queue_of_nodes, vector_of_auxengine_ready_,
                       our_index, root_is_queued>>
  /\ UNCHANGED <<cur_n, lock_frame>>

\* L_Query with the unlock of line 700 left out: the query runs under auxengine_mutex_
L_Query_KeepsQueueMutex(t) ==
  /\ \/ lpc[t] = "L668" /\ LLock(t, "L700")
     \/ lpc[t] = "L700" /\ LSkip(t, IF stop_ THEN "L377" ELSE "L759")
     \/ lpc[t] = "L759" /\ LLock(t, "L783")
     \/ lpc[t] = "L783"
          /\ LUnlock(t, "auxengine_stopped_mutex_", IF stop_ THEN "L377" ELSE "L822")
     \/ lpc[t] = "L822" /\ LSkip(t, IF stop_ THEN "L829" ELSE "L874")
     \/ lpc[t] = "L829" /\ LLock(t, "L838")
     \/ lpc[t] = "L838" /\ LUnlock(t, "auxengine_stopped_mutex_", "L377")
     \/ lpc[t] = "L874" /\ LLock(t, "L876")
     \/ lpc[t] = "L876"
          /\ LUnlock(t, "auxengine_stopped_mutex_", IF stop_ THEN "L377" ELSE "L589")
     \/ lpc[t] = "L589" /\ LLock(t, "L598")
     \/ lpc[t] = "L598" /\ LUnlock(t, "my_pv_cache_mutex_", "L617")
     \/ lpc[t] = "L617" /\ LLock(t, "L624")
     \/ lpc[t] = "L624"
          /\ LUnlock(t, "fast_track_extend_and_evaluate_queue_mutex_", "L377")
  /\ cur_n' = IF lpc[t] = "L700" THEN [cur_n EXCEPT ![t] = Null] ELSE cur_n
  /\ UNCHANGED <<lock_data, lock_frame>>

\* DoAuxEngine and AuxEncode_and_Enqueue: each lock is released before the next.
\* The lock operations after line 700 do not depend on n, which is dropped there.
L_Query(t) ==
  /\ \/ lpc[t] = "L668" /\ LLock(t, "L700")
     \/ lpc[t] = "L700" /\ LUnlock(t, "auxengine_mutex_", IF stop_ THEN "L377" ELSE "L759")
     \/ lpc[t] = "L759" /\ LLock(t, "L783")
     \/ lpc[t] = "L783"
          /\ LUnlock(t, "auxengine_stopped_mutex_", IF stop_ THEN "L377" ELSE "L822")
     \/ lpc[t] = "L822" /\ LSkip(t, IF stop_ THEN "L829" ELSE "L874")
     \/ lpc[t] = "L829" /\ LLock(t, "L838")
     \/ lpc[t] = "L838" /\ LUnlock(t, "auxengine_stopped_mutex_", "L377")
     \/ lpc[t] = "L874" /\ LLock(t, "L876")
     \/ lpc[t] = "L876"
          /\ LUnlock(t, "auxengine_stopped_mutex_", IF stop_ THEN "L377" ELSE "L589")
     \/ lpc[t] = "L589" /\ LLock(t, "L598")
     \/ lpc[t] = "L598" /\ LUnlock(t, "my_pv_cache_mutex_", "L617")
     \/ lpc[t] = "L617" /\ LLock(t, "L624")
     \/ lpc[t] = "L624"
          /\ LUnlock(t, "fast_track_extend_and_evaluate_queue_mutex_", "L377")
  /\ cur_n' = IF lpc[t] = "L700" THEN [cur_n EXCEPT ![t] = Null] ELSE cur_n
  /\ UNCHANGED <<lock_data, lock_frame>>

\* AuxMaybeEnqueueNode, lines 65-88, called for some nominated node
L_Gate(n) ==
  /\ lpc[GateThread] \in {"L65", "L69", "L87"}
  /\ \/ /\ lpc[GateThread] = "L65"
        /\ ~stop_
        /\ Len(n) > Len(root_node_)
        /\ LSkip(GateThread, "L69")
        /\ UNCHANGED lock_data
     \/ /\ lpc[GateThread] = "L69"
        /\ LLock(GateThread, "L87")
        /\ persistent_queue_of_nodes' =
             IF ~final_purge_run /\ CanPushNode(persistent_queue_of_nodes)
             THEN Append(persistent_queue_of_nodes, n)
             ELSE persistent_queue_of_nodes
        /\ UNCHANGED <<stop_, thread_counter, vector_of_auxengine_ready_, our_index,
                       root_is_queued>>
     \/ /\ lpc[GateThread] = "L87"
        /\ LUnlock(GateThread, "auxengine_mutex_", "L65")
        /\ UNCHANGED lock_data
  /\ UNCHANGED <<cur_n, lock_frame>>

\* stop_ is set and auxengine_cv_ notified
L_SetStop ==
  /\ ~stop_
  /\ stop_' = TRUE
  /\ UNCHANGED <<persistent_queue_of_nodes, thread_counter, vector_of_auxengine_ready_,
                 our_index, root_is_queued, cur_n, lock_vars, lock_frame>>

\* the threads of one search have been created; none has run yet
InitLocks ==
  /\ InitConstructed \/ InitLaterMove
  /\ OptionsOnRoot = FALSE
  /\ lpc = [t \in LThreads |-> IF t = GateThread THEN "L65" ELSE "L96"]
  /\ mutex_owner = [m \in Mutexes |-> NoThread]
  /\ ResultIdle
  /\ QueryIdle

NextLocks ==
  \/ \E t \in Threads :
       \/ L_Entry(t)
       \/ L_Fresh(t)
       \/ L_Purge(t)
       \/ L_Loop(t)
       \/ L_Wait(t)
       \/ L_Exit(t)
       \/ L_Query(t)
  \/ \E n \in { <<1>> \o p : p \in NomineePaths } : L_Gate(n)
  \/ L_SetStop

SpecLocks == InitLocks /\ [][NextLocks]_vars

\* a step of worker thread t, and a step of the gate once it has been called
LWorkerStep(t) ==
  \/ L_Entry(t) \/ L_Fresh(t) \/ L_Purge(t) \/ L_Loop(t)
  \/ L_Wait(t) \/ L_Exit(t) \/ L_Query(t)
LGateStep == lpc[GateThread] # "L65" /\ \E n \in Nodes : L_Gate(n)

\* Every thread that can run does run; a thread blocked in lock() or in the wait
\* runs when the mutex is free and the predicate holds.  The helpers answer
\* every command (L_Query never blocks on a helper).  Calls of the gate and the
\* arrival of stop are up to the search.
FairnessLocks ==
  /\ \A t \in Threads : WF_vars(LWorkerStep(t))
  /\ WF_vars(LGateStep)

FairSpecLocks == InitLocks /\ [][NextLocks]_vars /\ FairnessLocks

(***************************************************************************)
(* chess/position.cc: the game history and the result classifier.  A board *)
(* is taken as what the classifier reads of it: the number of legal moves  *)
(* and whether the side to move is in check.                               *)
(***************************************************************************)
\* best_goal.number_of_legal_moves as initialised, and the test `< 10`
NoGoal == 10
\* ComputeLastMoveRepetitions: no repetition while rule50_ply is below 4
MinPlyToRepeat == 4
\* repetitions that end the game
RepetitionsToEnd == 2

Last(h) == h[Len(h)]

\* IsBlackToMove() of the last position: the side to move alternates
HistoryIsBlackToMove(h, black_first) ==
  IF (Len(h) - 1) % 2 = 0 THEN black_first ELSE ~black_first

BoolToInt(b) == IF b THEN 1 ELSE 0

\* result_as_int of line 117, a uint8_t
PackResult(is_black_to_move, size, under_check) ==
  ( 1 + BoolToInt(is_black_to_move) * 2 * size
      + BoolToInt(~is_black_to_move) * 20
      + BoolToInt(~is_black_to_move) * 2 * (9 - size)
      + BoolToInt(~under_check) ) % 256

\* the loop of lines 108-135 with `<= 10` for `< 10`
RECURSIVE RmobilityWalk_Le10(_, _, _, _)
RmobilityWalk_Le10(h, i, is_black_to_move, st) ==
  IF i > Last(h).rule50_ply_
  THEN st
  ELSE LET board == h[Len(h) - i]
       IN IF board.L <= NoGoal /\ board.L <= st.number_of_legal_moves
          THEN RmobilityWalk_Le10(h, i + 1, ~is_black_to_move,
                 [ number_of_legal_moves |-> board.L,
                   is_in_check |-> board.check,
                   white_is_best_player |-> ~is_black_to_move,
                   result |-> PackResult(is_black_to_move, board.L, board.check) ])
          ELSE RmobilityWalk_Le10(h, i + 1, ~is_black_to_move, st)

\* the loop of lines 108-135 from iteration i on: st is best_goal and result;
\* GetPositionAt(GetLength() - i - 1) is h[Len(h) - i] with indices from 1
RECURSIVE RmobilityWalk(_, _, _, _)
RmobilityWalk(h, i, is_black_to_move, st) ==
  IF i > Last(h).rule50_ply_
  THEN st
  ELSE LET board == h[Len(h) - i]
       IN IF board.L < NoGoal /\ board.L <= st.number_of_legal_moves
          THEN RmobilityWalk(h, i + 1, ~is_black_to_move,
                 [ number_of_legal_moves |-> board.L,
                   is_in_check |-> board.check,
                   white_is_best_player |-> ~is_black_to_move,
                   result |-> PackResult(is_black_to_move, board.L, board.check) ])
          ELSE RmobilityWalk(h, i + 1, ~is_black_to_move, st)

\* best_goal and result when ComputeGameResultRmobility returns
RmobilityGoal(h, black_first) ==
  RmobilityWalk(h, 1, HistoryIsBlackToMove(h, black_first),
                [ number_of_legal_moves |-> NoGoal, is_in_check |-> FALSE,
                  white_is_best_player |-> FALSE, result |-> DRAW ])

ComputeGameResultRmobility(h, black_first) == RmobilityGoal(h, black_first).result

\* the indices that the walk hands to GetPositionAt (the first position is index 0)
ClassifierReads(h) == { Len(h) - i - 1 : i \in 1..Last(h).rule50_ply_ }

\* the walk reads positions before the first one (the history was Reset with a
\* counter that was not zero)
WalkOutOfRange(h) == Last(h).rule50_ply_ > Len(h) - 1

\* ComputeGameResult calls ComputeGameResultRmobility
CallsRmobility(h) ==
  /\ Last(h).L > 0
  /\ \/ Last(h).rule50_ply_ >= Rule50Limit
     \/ Last(h).repetitions_ >= RepetitionsToEnd

\* ComputeGameResult without the test of the repetitions at position.cc:282
ComputeGameResult_NoRepetitions(h, black_first) ==
  IF Last(h).L = 0
  THEN IF Last(h).check
       THEN (IF HistoryIsBlackToMove(h, black_first) THEN WHITE_WON ELSE BLACK_WON)
       ELSE (IF HistoryIsBlackToMove(h, black_first)
             THEN WHITE_STALEMATE ELSE BLACK_STALEMATE)
  ELSE IF Last(h).rule50_ply_ >= Rule50Limit
  THEN ComputeGameResultRmobility(h, black_first)
  ELSE UNDECIDED

ComputeGameResult(h, black_first) ==
  IF Last(h).L = 0
  THEN IF Last(h).check
       THEN (IF HistoryIsBlackToMove(h, black_first) THEN WHITE_WON ELSE BLACK_WON)
       ELSE (IF HistoryIsBlackToMove(h, black_first)
             THEN WHITE_STALEMATE ELSE BLACK_STALEMATE)
  ELSE IF CallsRmobility(h)
  THEN ComputeGameResultRmobility(h, black_first)
  ELSE UNDECIDED

\* operator-(const GameResult&)
Negate(res) ==
  IF res = BLACK_WON THEN WHITE_WON
  ELSE IF res = WHITE_WON THEN BLACK_WON
  ELSE res

result_frame == <<phase, searchNo, root_node_, stop_, stopper, final_bestmove_,
                  OptionsOnRoot, queue_vars, pv_vars, stats_vars, helper_vars,
                  worker_vars, my_pv_cache_, aux_tag, pushed_keys, end_pairs, last_op,
                  lock_vars, query_vars>>

\* PositionHistory::Append(m): the move leads to board b; a zeroing move resets the
\* counter.  ComputeLastMoveRepetitions gives 0 while the counter is below 4; from
\* there on whether the board has occurred before is up to the moves played.
R_Append(b, is_zeroing, repetitions) ==
  /\ ~aborted
  /\ rpc = "play"
  /\ Len(positions_) < MaxHistory
  /\ Last(positions_).L > 0
  /\ LET rule50 == IF is_zeroing THEN 0 ELSE Last(positions_).rule50_ply_ + 1
     IN /\ rule50 < MinPlyToRepeat => repetitions = 0
        /\ positions_' = Append(positions_,
             [ L |-> b.L, check |-> b.check, rule50_ply_ |-> rule50,
               repetitions_ |-> repetitions ])
  /\ UNCHANGED <<aborted, black_at_reset, game_result, negated, rpc, result_frame>>

\* PositionHistory::ComputeGameResult()
R_ComputeGameResult ==
  /\ ~aborted
  /\ rpc = "play"
  /\ IF CallsRmobility(positions_) /\ WalkOutOfRange(positions_)
     THEN /\ aborted' = TRUE
          /\ UNCHANGED <<game_result, rpc>>
     ELSE /\ game_result' = ComputeGameResult(positions_, black_at_reset)
          /\ rpc' = "computed"
          /\ UNCHANGED aborted
  /\ UNCHANGED <<positions_, black_at_reset, negated, result_frame>>

\* the result is negated (seen from the other side)
R_Negate ==
  /\ ~aborted
  /\ rpc = "computed"
  /\ negated' = Negate(game_result)
  /\ rpc' = "negated"
  /\ UNCHANGED <<aborted, positions_, black_at_reset, game_result, result_frame>>

\* PositionHistory::Reset(board, rule50_ply, game_ply): one position, either side
\* to move
InitResult ==
  /\ InitConstructed
  /\ final_purge_run = FALSE
  /\ OptionsOnRoot = FALSE
  /\ LocksIdle
  /\ QueryIdle
  /\ \E b \in Boards, rule50_ply \in 0..MaxResetPly :
       positions_ = << [ L |-> b.L, check |-> b.check, rule50_ply_ |-> rule50_ply,
                         repetitions_ |-> 0 ] >>
  /\ black_at_reset \in BOOLEAN
  /\ game_result = UNDECIDED
  /\ negated = UNDECIDED
  /\ rpc = "play"

NextResult ==
  \/ \E b \in Boards \cup FinalBoards, is_zeroing \in BOOLEAN,
        repetitions \in {0, RepetitionsToEnd} :
       R_Append(b, is_zeroing, repetitions)
  \/ R_ComputeGameResult
  \/ R_Negate

SpecResult == InitResult /\ [][NextResult]_vars

(***************************************************************************)
(* One query of DoAuxEngine (auxengine.cc:756-892), statement by           *)
(* statement, against the helper process and the stopper.  qpc[t] is the   *)
(* line worker t executes next; worker t talks to helper t - 1.  The       *)
(* helper is a UCI engine: after `go` it writes info lines and then        *)
(* bestmove, it answers `stop` with bestmove, and it may die.              *)
(***************************************************************************)
\* info lines a helper writes per `go`, and queries a worker starts
MaxInfoLines == 3
MaxQueries == 2

StopperThread == AuxEngineInstances + 1
StoppedMutex == "auxengine_stopped_mutex_"
\* index of DoAuxEngine(index): the workers number themselves in order of creation
QIndex(t) == t - 1
HelperLines == {"info", "bestmove", "bestmove info"}

QGoto(t, l) == qpc' = [qpc EXCEPT ![t] = l]
QLock(t) ==
  /\ mutex_owner[StoppedMutex] = NoThread
  /\ mutex_owner' = [mutex_owner EXCEPT ![StoppedMutex] = t]
QUnlock(t) ==
  /\ mutex_owner[StoppedMutex] = t
  /\ mutex_owner' = [mutex_owner EXCEPT ![StoppedMutex] = NoThread]

\* what the helper does with a command written to its input
HelperOn(h, cmd) ==
  IF h = "dead" THEN "dead"
  ELSE IF cmd = "go" THEN "go_time"
  ELSE IF h \in {"go_time", "go_inf"} THEN "stopping"
  ELSE h
\* *vector_of_opstreams[index] << cmd << std::endl
QWrite(i, cmd) ==
  /\ sent' = [sent EXCEPT ![i] = Append(@, cmd)]
  /\ helper' = [helper EXCEPT ![i] = HelperOn(@, cmd)]

\* what the statements of the query leave alone
query_frame == <<phase, searchNo, root_node_, stopper, final_bestmove_, OptionsOnRoot,
                 queue_vars, pv_vars, stats_vars, num_stop, stop_midstream, pc, our_index,
                 cur_n, cur_depth, cur_line, root_is_queued, fresh, my_pv_cache_, aux_tag,
                 pushed_keys, end_pairs, last_op, lpc, result_vars>>

\* Q_Submit with stop_ tested on entry only and not again under the mutex
Q_Submit_TestBeforeLock(t) ==
  /\ ~aborted
  /\ \/ /\ qpc[t] = "L639"
        /\ IF stop_
           THEN QGoto(t, "L640") /\ UNCHANGED num_queries
           ELSE /\ num_queries[t] < MaxQueries
                /\ QGoto(t, "L766")
                /\ num_queries' = [num_queries EXCEPT ![t] = @ + 1]
        /\ stopping' = [stopping EXCEPT ![t] = FALSE]
        /\ second_stopping' = [second_stopping EXCEPT ![t] = FALSE]
        /\ prev_line' = [prev_line EXCEPT ![t] = ""]
        /\ ended_dead' = [ended_dead EXCEPT ![t] = FALSE]
        /\ UNCHANGED <<mutex_owner, sent, helper, num_lines, auxengine_stopped_>>
     \/ /\ qpc[t] = "L766"
        /\ QLock(t)
        /\ QWrite(QIndex(t), "go")
        /\ num_lines' = [num_lines EXCEPT ![QIndex(t)] = 0]
        /\ auxengine_stopped_' = [auxengine_stopped_ EXCEPT ![QIndex(t) + 1] = FALSE]
        /\ QGoto(t, "L783")
        /\ UNCHANGED <<stopping, second_stopping, prev_line, ended_dead, num_queries>>
     \/ /\ qpc[t] \in {"L763", "L783"}
        /\ QUnlock(t)
        /\ QGoto(t, IF qpc[t] = "L763" THEN "L764" ELSE "L794")
        /\ UNCHANGED <<sent, helper, num_lines, auxengine_stopped_, stopping,
                       second_stopping, prev_line, ended_dead, num_queries>>
  /\ UNCHANGED <<stop_, aborted, spc, pipe, query_frame>>

\* lines 639 and 756-783: the stop test on entry; under auxengine_stopped_mutex_ the
\* stop test, `position` and `go`, auxengine_stopped_[index] = false
Q_Submit(t) ==
  /\ ~aborted
  /\ \/ /\ qpc[t] = "L639"
        /\ IF stop_
           THEN QGoto(t, "L640") /\ UNCHANGED num_queries
           ELSE /\ num_queries[t] < MaxQueries
                /\ QGoto(t, "L759")
                /\ num_queries' = [num_queries EXCEPT ![t] = @ + 1]
        /\ stopping' = [stopping EXCEPT ![t] = FALSE]
        /\ second_stopping' = [second_stopping EXCEPT ![t] = FALSE]
        /\ prev_line' = [prev_line EXCEPT ![t] = ""]
        /\ ended_dead' = [ended_dead EXCEPT ![t] = FALSE]
        /\ UNCHANGED <<mutex_owner, sent, helper, num_lines, auxengine_stopped_>>
     \/ /\ qpc[t] = "L759"
        /\ QLock(t)
        /\ QGoto(t, "L761")
        /\ UNCHANGED <<sent, helper, num_lines, auxengine_stopped_, stopping,
                       second_stopping, prev_line, ended_dead, num_queries>>
     \/ /\ qpc[t] = "L761"
        /\ IF stop_
           THEN /\ QGoto(t, "L763")
                /\ UNCHANGED <<sent, helper, num_lines, auxengine_stopped_>>
           ELSE /\ QWrite(QIndex(t), "go")
                /\ num_lines' = [num_lines EXCEPT ![QIndex(t)] = 0]
                /\ auxengine_stopped_' =
                     [auxengine_stopped_ EXCEPT ![QIndex(t) + 1] = FALSE]
                /\ QGoto(t, "L783")
        /\ UNCHANGED <<mutex_owner, stopping, second_stopping, prev_line, ended_dead,
                       num_queries>>
     \/ /\ qpc[t] \in {"L763", "L783"}
        /\ QUnlock(t)
        /\ QGoto(t, IF qpc[t] = "L763" THEN "L764" ELSE "L794")
        /\ UNCHANGED <<sent, helper, num_lines, auxengine_stopped_, stopping,
                       second_stopping, prev_line, ended_dead, num_queries>>
  /\ UNCHANGED <<stop_, aborted, spc, pipe, query_frame>>

\* lines 794-805 and 819: std::getline on the helper's output.  It blocks while the
\* helper runs and has written nothing; it fails when the helper is gone and its
\* output is used up.
Q_GetLine(t) ==
  /\ ~aborted
  /\ qpc[t] = "L794"
  /\ IF pipe[QIndex(t)] = <<>>
     THEN /\ helper[QIndex(t)] = "dead"
          /\ QGoto(t, "L869")
          /\ ended_dead' = [ended_dead EXCEPT ![t] = TRUE]
          /\ UNCHANGED <<pipe, prev_line>>
     ELSE LET line == Head(pipe[QIndex(t)])
          IN /\ pipe' = [pipe EXCEPT ![QIndex(t)] = Tail(@)]
             /\ IF line = "bestmove"
                THEN /\ QGoto(t, "L869")
                     /\ ended_dead' = [ended_dead EXCEPT ![t] = helper[QIndex(t)] = "dead"]
                     /\ UNCHANGED prev_line
                ELSE IF line = "bestmove info"
                THEN /\ QGoto(t, "L811")
                     /\ UNCHANGED <<prev_line, ended_dead>>
                ELSE /\ QGoto(t, "L821")
                     /\ prev_line' = [prev_line EXCEPT ![t] = line]
                     /\ UNCHANGED ended_dead
  /\ UNCHANGED <<stop_, aborted, spc, sent, helper, num_lines, auxengine_stopped_, stopping,
                 second_stopping, mutex_owner, num_queries, query_frame>>

\* lines 806-813, a `bestmove info` line: lock, write `stop`, lock again.  The second
\* lock() is called by the thread that owns the mutex, which std::mutex leaves
\* undefined: the thread blocks for ever, or lock() throws and the process ends.
Q_BestmoveInfo(t) ==
  /\ ~aborted
  /\ \/ /\ qpc[t] = "L811"
        /\ QLock(t)
        /\ QGoto(t, "L812")
        /\ UNCHANGED <<sent, helper, aborted>>
     \/ /\ qpc[t] = "L812"
        /\ QWrite(QIndex(t), "stop")
        /\ QGoto(t, "L813")
        /\ UNCHANGED <<mutex_owner, aborted>>
     \/ /\ qpc[t] = "L813"
        /\ mutex_owner[StoppedMutex] = t
        /\ aborted' = TRUE
        /\ UNCHANGED <<qpc, mutex_owner, sent, helper>>
  /\ UNCHANGED <<stop_, spc, pipe, num_lines, auxengine_stopped_, stopping, second_stopping,
                 prev_line, ended_dead, num_queries, query_frame>>

\* lines 819-851 for a time-limited query: the first line read with stop_ set makes
\* the worker send `stop` unless auxengine_stopped_[index] says it has been sent
Q_StopSeen(t) ==
  /\ ~aborted
  /\ \/ /\ qpc[t] = "L821"
        /\ ~stopping[t]
        /\ stopping' = [stopping EXCEPT ![t] = stop_]
        /\ QGoto(t, IF stop_ THEN "L829" ELSE "L794")
        /\ UNCHANGED <<mutex_owner, sent, helper, auxengine_stopped_>>
     \/ /\ qpc[t] = "L829"
        /\ QLock(t)
        /\ QGoto(t, "L830")
        /\ UNCHANGED <<sent, helper, auxengine_stopped_, stopping>>
     \/ /\ qpc[t] = "L830"
        /\ IF ~auxengine_stopped_[QIndex(t) + 1]
           THEN /\ QWrite(QIndex(t), "stop")
                /\ auxengine_stopped_' =
                     [auxengine_stopped_ EXCEPT ![QIndex(t) + 1] = TRUE]
           ELSE UNCHANGED <<sent, helper, auxengine_stopped_>>
        /\ QGoto(t, "L838")
        /\ UNCHANGED <<mutex_owner, stopping>>
     \/ /\ qpc[t] = "L838"
        /\ QUnlock(t)
        /\ QGoto(t, "L794")
        /\ UNCHANGED <<sent, helper, auxengine_stopped_, stopping>>
  /\ UNCHANGED <<stop_, aborted, spc, pipe, num_lines, second_stopping, prev_line,
                 ended_dead, num_queries, query_frame>>

\* lines 852-867: the lines read after the one that showed stop_; from the second one
\* on `stop` is written again
Q_StopAgain(t) ==
  /\ ~aborted
  /\ \/ /\ qpc[t] = "L821"
        /\ stopping[t]
        /\ second_stopping' = [second_stopping EXCEPT ![t] = TRUE]
        /\ QGoto(t, IF second_stopping[t] THEN "L857" ELSE "L794")
        /\ UNCHANGED <<mutex_owner, sent, helper>>
     \/ /\ qpc[t] = "L857"
        /\ QLock(t)
        /\ QGoto(t, "L858")
        /\ UNCHANGED <<sent, helper, second_stopping>>
     \/ /\ qpc[t] = "L858"
        /\ QWrite(QIndex(t), "stop")
        /\ QGoto(t, "L859")
        /\ UNCHANGED <<mutex_owner, second_stopping>>
     \/ /\ qpc[t] = "L859"
        /\ QUnlock(t)
        /\ QGoto(t, "L794")
        /\ UNCHANGED <<sent, helper, second_stopping>>
  /\ UNCHANGED <<stop_, aborted, spc, pipe, num_lines, auxengine_stopped_, stopping,
                 prev_line, ended_dead, num_queries, query_frame>>

\* lines 869-892, after the read loop: return if stopping; else
\* auxengine_stopped_[index] = true, return if prev_line is empty, throw if the child
\* is not running
Q_End(t) ==
  /\ ~aborted
  /\ \/ /\ qpc[t] = "L869"
        /\ QGoto(t, IF stopping[t] THEN "L872" ELSE "L874")
        /\ UNCHANGED <<mutex_owner, auxengine_stopped_, aborted>>
     \/ /\ qpc[t] = "L874"
        /\ QLock(t)
        /\ QGoto(t, "L875")
        /\ UNCHANGED <<auxengine_stopped_, aborted>>
     \/ /\ qpc[t] = "L875"
        /\ auxengine_stopped_' = [auxengine_stopped_ EXCEPT ![QIndex(t) + 1] = TRUE]
        /\ QGoto(t, "L876")
        /\ UNCHANGED <<mutex_owner, aborted>>
     \/ /\ qpc[t] = "L876"
        /\ QUnlock(t)
        /\ QGoto(t, IF prev_line[t] = "" THEN "L888" ELSE "L889")
        /\ UNCHANGED <<auxengine_stopped_, aborted>>
     \/ /\ qpc[t] = "L889"
        /\ IF helper[QIndex(t)] = "dead"
           THEN QGoto(t, "L891") /\ aborted' = TRUE
           ELSE QGoto(t, "L906") /\ UNCHANGED aborted
        /\ UNCHANGED <<mutex_owner, auxengine_stopped_>>
  /\ UNCHANGED <<stop_, spc, sent, pipe, helper, num_lines, stopping, second_stopping,
                 prev_line, ended_dead, num_queries, query_frame>>

\* DoAuxEngine has returned (lines 764, 872, 888, and 906 once the last line is
\* encoded); the worker loop calls it again
Q_Return(t) ==
  /\ ~aborted
  /\ qpc[t] \in {"L764", "L872", "L888", "L906"}
  /\ QGoto(t, "L639")
  /\ UNCHANGED <<stop_, aborted, spc, sent, pipe, helper, num_lines, auxengine_stopped_,
                 stopping, second_stopping, prev_line, ended_dead, num_queries,
                 mutex_owner, query_frame>>

\* the helper writes a line: an info line, its bestmove (when its time is up or it
\* has been told to stop), or the `bestmove info` of a garbled stream
H_Write(i, line) ==
  /\ ~aborted
  /\ helper[i] \in {"go_time", "stopping"}
  /\ line # "bestmove" => num_lines[i] < MaxInfoLines
  /\ pipe' = [pipe EXCEPT ![i] = Append(@, line)]
  /\ IF line = "bestmove"
     THEN helper' = [helper EXCEPT ![i] = "idle"] /\ UNCHANGED num_lines
     ELSE num_lines' = [num_lines EXCEPT ![i] = @ + 1] /\ UNCHANGED helper
  /\ UNCHANGED <<stop_, aborted, qpc, spc, sent, auxengine_stopped_, stopping,
                 second_stopping, prev_line, ended_dead, num_queries, mutex_owner,
                 query_frame>>

\* the helper process ends
H_Die(i) ==
  /\ ~aborted
  /\ helper[i] # "dead"
  /\ helper' = [helper EXCEPT ![i] = "dead"]
  /\ UNCHANGED <<stop_, aborted, qpc, spc, sent, pipe, num_lines, auxengine_stopped_,
                 stopping, second_stopping, prev_line, ended_dead, num_queries,
                 mutex_owner, query_frame>>

\* the stopper: stop_ is set; then, under auxengine_stopped_mutex_, `stop` goes to
\* every helper whose auxengine_stopped_ flag is false, and the flag is set
Q_Stopper ==
  /\ ~aborted
  /\ \/ /\ spc = "set"
        /\ stop_' = TRUE
        /\ spc' = "lock"
        /\ UNCHANGED <<mutex_owner, sent, helper, auxengine_stopped_>>
     \/ /\ spc = "lock"
        /\ QLock(StopperThread)
        /\ spc' = "send"
        /\ UNCHANGED <<stop_, sent, helper, auxengine_stopped_>>
     \/ /\ spc = "send"
        /\ sent' = [i \in DOMAIN sent |->
                      IF auxengine_stopped_[i + 1] THEN sent[i] ELSE Append(sent[i], "stop")]
        /\ helper' = [i \in DOMAIN helper |->
                        IF auxengine_stopped_[i + 1] THEN helper[i]
                        ELSE HelperOn(helper[i], "stop")]
        /\ auxengine_stopped_' = [i \in DOMAIN auxengine_stopped_ |-> TRUE]
        /\ spc' = "unlock"
        /\ UNCHANGED <<stop_, mutex_owner>>
     \/ /\ spc = "unlock"
        /\ QUnlock(StopperThread)
        /\ spc' = "done"
        /\ UNCHANGED <<stop_, sent, helper, auxengine_stopped_>>
  /\ UNCHANGED <<aborted, qpc, pipe, num_lines, stopping, second_stopping, prev_line,
                 ended_dead, num_queries, query_frame>>

\* a search is running, the helpers have been started and are idle, one worker has
\* dequeued a node and is about to call DoAuxEngine, the others wait at the queue
InitQuery ==
  /\ phase = "searching"
  /\ searchNo = 1
  /\ root_node_ = <<1>>
  /\ stop_ = FALSE
  /\ stopper = "none"
  /\ final_bestmove_ = 0
  /\ aborted = FALSE
  /\ OptionsOnRoot = FALSE
  /\ persistent_queue_of_nodes = <<>>
  /\ size_of_queue_at_start = 0
  /\ fast_track_extend_and_evaluate_queue_ = <<>>
  /\ starting_depth_of_PVs_ = <<>>
  /\ amount_of_support_for_PVs_ = <<>>
  /\ my_pv_cache_ = {}
  /\ thread_counter = AuxEngineInstances
  /\ vector_of_auxengine_ready_ = [i \in 1..AuxEngineInstances |-> TRUE]
  /\ auxengine_stopped_ = [i \in 1..AuxEngineInstances |-> TRUE]
  /\ initial_purge_run = TRUE
  /\ final_purge_run = FALSE
  /\ New_Game = FALSE
  /\ aux_tag = [n \in Nodes |-> UNSET]
  /\ helper = [i \in 0..(AuxEngineInstances - 1) |-> "idle"]
  /\ num_stop = [i \in 0..(AuxEngineInstances - 1) |-> 0]
  /\ stop_midstream = [i \in 0..(AuxEngineInstances - 1) |-> FALSE]
  /\ pc = [t \in Threads |-> "none"]
  /\ our_index = [t \in Threads |-> QIndex(t)]
  /\ cur_n = [t \in Threads |-> Null]
  /\ cur_depth = [t \in Threads |-> 0]
  /\ cur_line = [t \in Threads |-> NoLine]
  /\ stopping = [t \in Threads |-> FALSE]
  /\ second_stopping = [t \in Threads |-> FALSE]
  /\ root_is_queued = [t \in Threads |-> FALSE]
  /\ fresh = [t \in Threads |-> FALSE]
  /\ pushed_keys = <<>>
  /\ end_pairs = <<>>
  /\ last_op = NoOp
  /\ lpc = [t \in LThreads |-> "none"]
  /\ mutex_owner = [m \in Mutexes |-> NoThread]
  /\ ResultIdle
  /\ \E w \in Threads : qpc = [t \in Threads |-> IF t = w THEN "L639" ELSE "none"]
  /\ spc = "set"
  /\ sent = [i \in 0..(AuxEngineInstances - 1) |-> <<>>]
  /\ pipe = [i \in 0..(AuxEngineInstances - 1) |-> <<>>]
  /\ num_lines = [i \in 0..(AuxEngineInstances - 1) |-> 0]
  /\ prev_line = [t \in Threads |-> ""]
  /\ ended_dead = [t \in Threads |-> FALSE]
  /\ num_queries = [t \in Threads |-> 0]

NextQuery ==
  \/ \E t \in Threads :
       \/ Q_Submit(t)
       \/ Q_GetLine(t)
       \/ Q_BestmoveInfo(t)
       \/ Q_StopSeen(t)
       \/ Q_StopAgain(t)
       \/ Q_End(t)
       \/ Q_Return(t)
  \/ \E i \in 0..(AuxEngineInstances - 1) :
       \/ \E line \in HelperLines : H_Write(i, line)
       \/ H_Die(i)
  \/ Q_Stopper

SpecQuery == InitQuery /\ [][NextQuery]_vars

(***************************************************************************)
(* AuxEncode_and_Enqueue as a function of its input: the line, the flag    *)
(* require_some_depth, stop_, the PV cache and the PV queue.               *)
(***************************************************************************)
\* the longest pv of the input lines: one move more than max_pv_length
MaxTokens == 100
\* reported depths and node counts on both sides of the tests of lines 549-552
EncDepths == {4, 5, 10, 11, 120}
EncNodes == {999, 1000}
\* pv token lists: shorter than, as long as and longer than min_pv_size, with a
\* malformed token after and among the moves, and longer than max_pv_length
EncPVs == { <<1, 1, 1>>, <<1, 1, 1, 1>>, <<1, 2, 1, 2, 1>>, <<1, 1, 1, 1, BadToken>>,
            <<1, BadToken, 1, 1, 1, 1>>, [k \in 1..MaxTokens |-> 1] }
EncLines == { [depth |-> d, nodes |-> k, pv |-> p] :
                d \in EncDepths, k \in EncNodes, p \in EncPVs }
\* the worker that calls the encoder
EncThread == 1

\* worker 0 is about to call AuxEncode_and_Enqueue for a line its helper wrote for
\* the root: a line of the root-infinite query (require_some_depth) or the last line
\* of a time-limited query
InitEncode ==
  /\ phase = "searching"
  /\ searchNo = 1
  /\ root_node_ = <<1>>
  /\ stop_ \in BOOLEAN
  /\ stopper = IF stop_ THEN "sent" ELSE "none"
  /\ final_bestmove_ = 0
  /\ aborted = FALSE
  /\ \E l \in EncLines : cur_line = [t \in Threads |-> IF t = EncThread THEN l ELSE NoLine]
  /\ OptionsOnRoot \in BOOLEAN
  /\ pc = [t \in Threads |-> IF t # EncThread THEN "none"
                              ELSE IF OptionsOnRoot THEN "enc_probe_inf" ELSE "enc_probe"]
  /\ helper = [i \in 0..(AuxEngineInstances - 1) |->
                 IF i = 0 /\ OptionsOnRoot THEN "go_inf" ELSE "idle"]
  /\ auxengine_stopped_ = [i \in 1..AuxEngineInstances |-> ~(i = 1 /\ OptionsOnRoot)]
  /\ persistent_queue_of_nodes = <<>>
  /\ size_of_queue_at_start = 0
  /\ \E q \in {<<>>, << <<2, 1, 1, 1>> >>} :
       /\ fast_track_extend_and_evaluate_queue_ = q
       /\ starting_depth_of_PVs_ = [k \in 1..Len(q) |-> 0]
       /\ amount_of_support_for_PVs_ = [k \in 1..Len(q) |-> MinNodesToSupport]
       /\ pushed_keys = q
       /\ my_pv_cache_ \in {SeqToSet(q), SeqToSet(q) \cup {<<1, 1, 1, 1>>}}
  /\ thread_counter = AuxEngineInstances
  /\ vector_of_auxengine_ready_ = [i \in 1..AuxEngineInstances |-> TRUE]
  /\ initial_purge_run = TRUE
  /\ final_purge_run = FALSE
  /\ New_Game = FALSE
  /\ aux_tag = [n \in Nodes |-> UNSET]
  /\ num_stop = [i \in 0..(AuxEngineInstances - 1) |-> 0]
  /\ stop_midstream = [i \in 0..(AuxEngineInstances - 1) |-> FALSE]
  /\ our_index = [t \in Threads |-> t - 1]
  /\ cur_n = [t \in Threads |-> IF t = EncThread THEN <<1>> ELSE Null]
  /\ cur_depth = [t \in Threads |-> 0]
  /\ stopping = [t \in Threads |-> FALSE]
  /\ second_stopping = [t \in Threads |-> FALSE]
  /\ root_is_queued = [t \in Threads |-> FALSE]
  /\ fresh = [t \in Threads |-> FALSE]
  /\ end_pairs = <<>>
  /\ last_op = NoOp
  /\ LocksIdle
  /\ ResultIdle
  /\ QueryIdle

NextEncode ==
  \/ W_EncProbe(EncThread)
  \/ W_EncPush(EncThread)

SpecEncode == InitEncode /\ [][NextEncode]_vars

(***************************************************************************)
(* A search under way.  The helpers have been started, worker 0 has run    *)
(* the start-of-move purge, and every worker is at the top of its loop     *)
(* (auxengine.cc:377): the state the first search reaches when the workers *)
(* finish their handshakes in the order of their indices.  The steps are   *)
(* those of the worker loop, of the gate and of the stopper.               *)
(***************************************************************************)
\* every variable but the option AuxEngineOptionsOnRoot
RunningState ==
  /\ phase = "searching"
  /\ searchNo = 1
  /\ root_node_ = <<1>>
  /\ stop_ = FALSE
  /\ stopper = "none"
  /\ final_bestmove_ = 0
  /\ aborted = FALSE
  /\ persistent_queue_of_nodes = <<>>
  /\ size_of_queue_at_start = 0
  /\ fast_track_extend_and_evaluate_queue_ = <<>>
  /\ starting_depth_of_PVs_ = <<>>
  /\ amount_of_support_for_PVs_ = <<>>
  /\ my_pv_cache_ = {}
  /\ thread_counter = AuxEngineInstances
  /\ vector_of_auxengine_ready_ = [i \in 1..AuxEngineInstances |-> TRUE]
  /\ auxengine_stopped_ = [i \in 1..AuxEngineInstances |-> TRUE]
  /\ initial_purge_run = TRUE
  /\ final_purge_run = FALSE
  /\ New_Game = FALSE
  /\ aux_tag = [n \in Nodes |-> UNSET]
  /\ helper = [i \in 0..(AuxEngineInstances - 1) |-> "idle"]
  /\ num_stop = [i \in 0..(AuxEngineInstances - 1) |-> 0]
  /\ stop_midstream = [i \in 0..(AuxEngineInstances - 1) |-> FALSE]
  /\ pc = [t \in Threads |-> "loop"]
  /\ our_index = [t \in Threads |-> t - 1]
  /\ cur_n = [t \in Threads |-> Null]
  /\ cur_depth = [t \in Threads |-> 0]
  /\ cur_line = [t \in Threads |-> NoLine]
  /\ stopping = [t \in Threads |-> FALSE]
  /\ second_stopping = [t \in Threads |-> FALSE]
  /\ root_is_queued = [t \in Threads |-> FALSE]
  /\ fresh = [t \in Threads |-> TRUE]
  /\ pushed_keys = <<>>
  /\ end_pairs = <<>>
  /\ last_op = NoOp
  /\ LocksIdle
  /\ ResultIdle
  /\ QueryIdle

\* AuxEngineOptionsOnRoot is empty: every worker takes its nodes from the queue
InitRunning ==
  /\ RunningState
  /\ OptionsOnRoot = FALSE

\* AuxEngineOptionsOnRoot is empty or not
InitRunningAnyRoot ==
  /\ RunningState
  /\ OptionsOnRoot \in BOOLEAN

\* the info line a helper writes in these runs
RunningLines == { [depth |-> 20, nodes |-> 5000, pv |-> <<1, 1, 1, 1>>] }

NextRunning ==
  \/ \E n \in Nodes : AuxMaybeEnqueueNode(n)
  \/ SetStop
  \/ StopHelpers
  \/ \E t \in Threads :
       \/ W_Loop(t)
       \/ W_Wait(t)
       \/ W_Exit(t)
       \/ W_DoStart(t)
       \/ W_DoGate(t)
       \/ W_DoSubmit(t)
       \/ \E l \in RunningLines : W_ReadInfo(t, l)
       \/ W_ReadBest(t)
       \/ W_EncProbe(t)
       \/ W_EncPush(t)

\* every worker step and the stopper's `stop` commands are taken when they stay enabled;
\* a worker that samples distribution() again and again (line 684) does not draw a
\* sample above 1/depth every time
FairnessRunning ==
  /\ WF_vars(StopHelpers)
  /\ \A t \in Threads : WF_vars(WorkerStep(t))
  /\ \A t \in Threads : SF_vars(W_DoGate(t) /\ pc'[t] = "do_submit")

FairSpecRunning == InitRunning /\ [][NextRunning]_vars /\ FairnessRunning

SpecRunningAnyRoot == InitRunningAnyRoot /\ [][NextRunning]_vars

(***************************************************************************)
(* The lifetime of the engine: searches one after the other, from the      *)
(* engine as constructed.  The nodes a worker queries are the roots queued *)
(* by the kickstart; MCTS nominates none.                                  *)
(***************************************************************************)
InitLifetime ==
  /\ InitConstructed
  /\ OptionsOnRoot = FALSE
  /\ LocksIdle
  /\ ResultIdle
  /\ QueryIdle

NextLifetime ==
  \/ StartSearchUpTo(MaxLifetimeSearches)
  \/ SetStop
  \/ StopHelpers
  \/ ConsumePV
  \/ AuxWait
  \/ \E t \in Threads :
       \/ W_Enter(t)
       \/ W_PushStopped(t)
       \/ W_PostHandshake(t)
       \/ W_PurgeNodes(t)
       \/ W_PurgePVs(t)
       \/ W_PurgeDone(t)
       \/ W_Loop(t)
       \/ W_Wait(t)
       \/ W_Exit(t)
       \/ W_DoStart(t)
       \/ W_DoGate(t)
       \/ W_DoSubmit(t)
       \/ \E l \in RunningLines : W_ReadInfo(t, l)
       \/ W_ReadBest(t)
       \/ W_EncProbe(t)
       \/ W_EncPush(t)

SpecLifetime == InitLifetime /\ [][NextLifetime]_vars

(***************************************************************************)
(* Properties.                                                             *)
(***************************************************************************)
\* the PVs of queue q whose first move is m, in order, each without its first move
RECURSIVE KeepFirstMove(_, _)
KeepFirstMove(q, m) ==
  IF q = <<>> THEN <<>>
  ELSE (IF Head(q) # <<>> /\ Head(q)[1] = m THEN <<Tail(Head(q))>> ELSE <<>>)
         \o KeepFirstMove(Tail(q), m)

\* C1: in every reachable state the node queue holds at most its cap of entries
\* (the cap of 15000 is MaxNodeQueue here).
C1_NodeQueueWithinCap == Len(persistent_queue_of_nodes) <= MaxNodeQueue

\* C2: in every reachable state the PV queue holds at most its cap of entries
\* (the cap of 20000 is MaxPVQueue here), and a PV offered at the cap is dropped:
\* the three PV queues were at the cap and the worker has left the push.
C2_PVQueueWithinCap ==
  /\ Len(fast_track_extend_and_evaluate_queue_) <= MaxPVQueue
  /\ last_op.op = "pv_dropped" =>
       /\ Len(fast_track_extend_and_evaluate_queue_) = MaxPVQueue
       /\ pc[last_op.arg] \in {"loop", "do_read"}

\* a worker has just offered a PV to a PV queue at its cap, and the PV was dropped
C2_DroppedAtCap ==
  /\ last_op.op = "pv_dropped"
  /\ Len(fast_track_extend_and_evaluate_queue_) = MaxPVQueue

\* C3: the keys of the PVs pushed onto the PV queue within one move are pairwise distinct.
C3_PushedKeysDistinct ==
  \A i, j \in DOMAIN pushed_keys : i # j => pushed_keys[i] # pushed_keys[j]

\* C4: after the start-of-move purge of the node queue, every entry the purge kept is
\* the target of a pair, left by the end-of-move purge, whose witness is the current root,
\* and no target of a pair with another witness is left in the queue.
C4_StartPurgeKeepsRootPairs ==
  last_op.op = "start_purge_nodes" =>
    /\ \A i \in DOMAIN last_op.arg[2] :
         \E j \in DOMAIN end_pairs :
           end_pairs[j] = <<last_op.arg[2][i], root_node_>>
    /\ \A j \in DOMAIN end_pairs :
         end_pairs[j][2] # root_node_ =>
           end_pairs[j][1] \notin SeqToSet(persistent_queue_of_nodes)

\* C5: after the end-of-move purge, the PV queue holds exactly the PVs it held before
\* whose first move is the move just played, in order, each without that move.
C5_AuxWaitKeepsPlayedPVs ==
  last_op.op = "auxwait" =>
    fast_track_extend_and_evaluate_queue_ =
      KeepFirstMove(last_op.arg[2], ParseMoveOf(final_bestmove_, IsBlackToMove(root_node_)))

\* C6: after the start-of-move purge by worker 0, the PV queue holds exactly the PVs it
\* held before whose first move is the move on the root's incoming edge, in order, each
\* without that move (none when the root has no incoming edge).
C6_StartPurgeKeepsRootMovePVs ==
  last_op.op = "start_purge_pvs" =>
    fast_track_extend_and_evaluate_queue_ =
      IF HasOwnEdge(root_node_)
      THEN KeepFirstMove(last_op.arg, GetMove(root_node_, FALSE))
      ELSE <<>>

\* worker 0 has just purged a PV queue of which it kept one PV and dropped another, or
\* kept the only one
C6_PurgedSomePV ==
  /\ last_op.op = "start_purge_pvs"
  /\ last_op.arg # <<>>
  /\ fast_track_extend_and_evaluate_queue_ # <<>>

\* C7: a node whose tag is PENDING eventually has the tag DONE or UNSET.  A behaviour
\* counts only while the engine runs: not after undefined behaviour, and not after the
\* last search of the run has been waited for.
C7_PendingResolved ==
  \A n \in Nodes :
    (aux_tag[n] = PENDING)
      ~> (\/ aux_tag[n] \in {DONE, UNSET}
          \/ aborted
          \/ (phase = "idle" /\ searchNo >= MaxSearches))

\* C8: when the gate could not push a node because the node queue was at its cap, the
\* node's tag is not PENDING after the call.
C8_GateFullNotPending ==
  last_op.op = "gate_full" => aux_tag[last_op.node] # PENDING

\* C9: every node a purge (start-of-move or end-of-move) removed from the node queue has
\* the tag UNSET after the purge.
C9_PurgedTagCleared ==
  /\ last_op.op = "start_purge_nodes" =>
       \A n \in SeqToSet(last_op.arg[1]) \ SeqToSet(persistent_queue_of_nodes) :
         aux_tag[n] = UNSET
  /\ last_op.op = "auxwait" =>
       \A n \in SeqToSet(last_op.arg[1]) \ SeqToSet(persistent_queue_of_nodes) :
         aux_tag[n] = UNSET

\* C10: a call of the gate made while stop_ or final_purge_run is set leaves the node
\* queue and every tag as they were and notifies no waiter.
C10_GateFrame ==
  [][ (last_op'.op \in {"gate_stopped", "gate_purged", "gate_pushed", "gate_full"}
       /\ (stop_ \/ final_purge_run))
      => /\ persistent_queue_of_nodes' = persistent_queue_of_nodes
         /\ aux_tag' = aux_tag
         /\ ~last_op'.notified ]_vars

\* the gate has just been called with stop_ set, after nodes were queued in this search
C10_GateCalledUnderStop ==
  /\ last_op.op = "gate_stopped"
  /\ stop_
  /\ persistent_queue_of_nodes # <<>>

\* C11: a query that the worker saw stopped (it read a line with stop_ set, then
\* drained to bestmove) had exactly one `stop` written to its helper since its `go`,
\* counting the stopper's and the worker's.
C11_OneStopPerStoppedQuery ==
  last_op.op = "query_stopped" => last_op.arg = 1

\* C12: no PV is pushed onto the PV queue by the worker of a helper whose query was
\* running when stop_ was set (time-limited or root-infinite): the output of a
\* stopped query is discarded.
C12_NoPushFromStoppedQuery ==
  last_op.op = "pv_pushed" => ~stop_midstream[our_index[last_op.arg]]

\* C13: the locks are taken in an order that excludes deadlock: in no reachable
\* state of starting workers, exiting workers, the enqueue gate and the purger
\* do two threads each wait for a mutex that the other one holds.
C13_NoLockCycle ==
  \A a, b \in LThreads :
    ~(/\ a # b
      /\ LWaitsFor(a) \in LHeldBy(b)
      /\ LWaitsFor(b) \in LHeldBy(a))

\* C14: in each move no worker other than worker 0 takes an entry from the node
\* queue before worker 0 has finished the start-of-move purge and set
\* initial_purge_run.
C14_NoDequeueBeforePurge ==
  last_op.op = "dequeued" => our_index[last_op.arg] = 0 \/ initial_purge_run

\* C15: once stop_ is set (and the condition variable notified), with helpers
\* that answer, every worker eventually leaves AuxEngineWorker and the thread
\* counter is back at zero, every increment matched by one decrement.
C15_WorkersExit ==
  stop_ ~> (thread_counter = 0 /\ \A t \in Threads : lpc[t] = "done")

\* C16: an entry of the node queue is handed to exactly one worker: a worker
\* between n = front() and pop() finds the queue non-empty with n still at its
\* head, and no other worker is reading or popping the front at the same time.
C16_DequeueExclusive ==
  \A t \in Threads :
    /\ lpc[t] = "L469" => persistent_queue_of_nodes # <<>>
    /\ lpc[t] = "L470" =>
         /\ persistent_queue_of_nodes # <<>>
         /\ cur_n[t] = Head(persistent_queue_of_nodes)
         /\ \A u \in Threads \ {t} : lpc[u] \notin {"L469", "L470"}

\* a worker is about to pop its entry while another worker waits for the lock
\* with an entry in the queue behind it and the gate has pushed concurrently
C16_TwoWorkersAtQueue ==
  \E t, u \in Threads :
    /\ t # u
    /\ lpc[t] = "L470"
    /\ lpc[u] = "L451"
    /\ Len(persistent_queue_of_nodes) >= 2
    /\ ~stop_

\* ComputeGameResultRmobility() has returned game_result for the history
RmobilityReturned ==
  /\ rpc \in {"computed", "negated"}
  /\ CallsRmobility(positions_)

\* the variant named "<side> won by r-mobility Gk.0" (in check) or "Gk.5" (not in
\* check) for k = size, as the result codes are listed in position.cc:145-258
RmobilityVariant(white_wins, size, in_check) ==
  (IF white_wins THEN WHITE_G1_0 ELSE BLACK_G1_0) + 2 * (size - 1)
    + (IF in_check THEN 0 ELSE 1)

\* the same result for the other side
OtherSide(res) ==
  IF res = BLACK_WON THEN WHITE_WON
  ELSE IF res = WHITE_WON THEN BLACK_WON
  ELSE IF res \in BLACK_G1_0..BLACK_G9_5 THEN res + (WHITE_G1_0 - BLACK_G1_0)
  ELSE IF res \in WHITE_G1_0..WHITE_G9_5 THEN res - (WHITE_G1_0 - BLACK_G1_0)
  ELSE res

\* C17: the packing of (side, L, in_check) yields one of the 36 R-mobility
\* variants, 3..20 for black and 24..41 for white: whenever the classifier has
\* found a goal (L in 1..9), its result is one of these codes and never one of
\* the codes 1, 2, 21, 22, 23.
C17_PackingOntoVariants ==
  (RmobilityReturned /\ RmobilityGoal(positions_, black_at_reset).number_of_legal_moves < NoGoal)
    => game_result \in (BLACK_G1_0..BLACK_G9_5) \cup (WHITE_G1_0..WHITE_G9_5)

\* C18: negation gives the same result for the other side (checkmates and the
\* Gk.x variants change sides, DRAW and the stalemates stay), and negating
\* twice gives the result back.
C18_NegationSwapsSides ==
  rpc = "negated" =>
    /\ negated = OtherSide(game_result)
    /\ Negate(negated) = game_result

\* C19: with the 50-move counter expired, the last position is part of the
\* walk: when the side to move in the last position has L < 10 legal moves and
\* every earlier position of the history has more, the classifier returns the
\* opponent's GL.0 (in check) or GL.5 (not in check).
C19_LastPositionCounts ==
  LET last == Last(positions_)
  IN ( /\ RmobilityReturned
       /\ last.rule50_ply_ >= Rule50Limit
       /\ last.L < NoGoal
       /\ \A k \in 1..(Len(positions_) - 1) : positions_[k].L > last.L )
     => game_result = RmobilityVariant(HistoryIsBlackToMove(positions_, black_at_reset),
                                       last.L, last.check)

\* C20: when no position of the backward walk, the last position included, has
\* fewer than 10 legal moves, the classifier returns DRAW.
C20_NoGoalIsDraw ==
  ( /\ RmobilityReturned
    /\ \A k \in 1..Len(positions_) :
         k >= Len(positions_) - Last(positions_).rule50_ply_ => positions_[k].L >= NoGoal )
  => game_result = DRAW

\* the counter has expired after two quiet moves and every board walked over
\* has ten legal moves
C20_WalkedWithoutGoal ==
  /\ RmobilityReturned
  /\ Len(positions_) = MaxHistory
  /\ Last(positions_).rule50_ply_ = Len(positions_) - 1
  /\ \A k \in 1..Len(positions_) : positions_[k].L >= NoGoal
  /\ game_result = DRAW

\* C21: ComputeGameResult returns, with no legal moves and in check, the win of the
\* side that is not to move; with no legal moves and not in check, that side's win
\* by stalemate; with legal moves, the R-mobility classification when the 50-move
\* counter has expired or the position has been repeated twice; UNDECIDED otherwise.
C21_ResultByCase ==
  rpc # "play" =>
    LET last == Last(positions_)
        black == HistoryIsBlackToMove(positions_, black_at_reset)
    IN /\ (last.L = 0 /\ last.check) =>
            game_result = (IF black THEN WHITE_WON ELSE BLACK_WON)
       /\ (last.L = 0 /\ ~last.check) =>
            game_result = (IF black THEN WHITE_STALEMATE ELSE BLACK_STALEMATE)
       /\ (last.L > 0 /\ (last.rule50_ply_ >= Rule50Limit
                          \/ last.repetitions_ >= RepetitionsToEnd)) =>
            game_result = ComputeGameResultRmobility(positions_, black_at_reset)
       /\ (last.L > 0 /\ last.rule50_ply_ < Rule50Limit
                      /\ last.repetitions_ < RepetitionsToEnd) =>
            game_result = UNDECIDED

\* a result computed for a repeated position whose 50-move counter has not expired
C21_RepeatedBeforeExpiry ==
  /\ rpc = "computed"
  /\ Last(positions_).L > 0
  /\ Last(positions_).rule50_ply_ < Rule50Limit
  /\ Last(positions_).repetitions_ >= RepetitionsToEnd
  /\ game_result = ComputeGameResultRmobility(positions_, black_at_reset)
  /\ game_result # UNDECIDED

\* the lines of the query at which auxengine_stopped_mutex_.lock() is called
QLockLines == {"L759", "L811", "L813", "L829", "L857", "L874"}

\* C22: a worker that reads `bestmove info` writes `stop`, releases
\* auxengine_stopped_mutex_ and goes on reading; it never calls lock() on the mutex
\* while it holds it, so it never blocks on its own lock.
C22_NeverLocksOwnMutex ==
  \A t \in Threads :
    qpc[t] \in QLockLines => mutex_owner[StoppedMutex] # t

\* C23: a query that ends, by bestmove or by the end of the helper's output, while
\* the helper's child process is not running makes the worker throw; DoAuxEngine
\* does not return from it, also when the helper wrote no line at all.
C23_DeadHelperIsFatal ==
  \A t \in Threads :
    ended_dead[t] => qpc[t] \notin {"L872", "L888", "L906"}

\* the last command written to helper i is a `go`: no `stop` has followed it
GoUnstopped(i) == sent[i] # <<>> /\ Last(sent[i]) = "go"
\* worker t has written the `go` of a query and has not yet recorded its end (line 875)
QueryOpen(t) ==
  qpc[t] \in {"L783", "L794", "L811", "L812", "L813", "L821", "L829", "L830", "L838",
              "L857", "L858", "L859", "L869", "L872", "L874", "L875"}

\* C24: `stop` does not race with the submission of a query.  Once the stopper has
\* set stop_ and made its pass under auxengine_stopped_mutex_, every helper whose
\* worker is in a query has had a `stop` written after its `go` (and no `go` is
\* written from then on); and, seen with the mutex free, auxengine_stopped_[i] is
\* false exactly while the last `go` to helper i has been followed neither by a
\* `stop` nor by the end of the query.
C24_StopFollowsGo ==
  /\ spc = "done" =>
        \A t \in Threads : QueryOpen(t) => ~GoUnstopped(QIndex(t))
  /\ mutex_owner[StoppedMutex] = NoThread =>
        \A t \in Threads :
          ~auxengine_stopped_[QIndex(t) + 1] <=> (GoUnstopped(QIndex(t)) /\ QueryOpen(t))

\* the stopper made its pass while a helper was running a query: it wrote the `stop`
C24_StoppedByStopper ==
  \E t \in Threads :
    /\ spc = "done"
    /\ qpc[t] = "L794"
    /\ ~stopping[t]
    /\ sent[QIndex(t)] = <<"go", "stop">>
    /\ auxengine_stopped_[QIndex(t) + 1]

\* the lock operations a worker reaches through helper I/O or a sleep: the handshake
\* with a fresh helper (lines 172-203, before 209), the sleep of line 411 (before
\* 426), the writes of `position` and `go` (766-778, before 783), the reads of the
\* helper's output (794, before 822, 829 and 874), the write of `stop` (832, before
\* 838), the sleep of line 886 (before the encoder's 589)
HelperIoLines == {"L209", "L426", "L783", "L822", "L829", "L838", "L874", "L589"}

\* C25: an MCTS thread calling the enqueue gate never waits on helper I/O: no worker
\* owns auxengine_mutex_, the mutex of the node queue, while it reads from or
\* writes to a helper pipe or sleeps.
C25_NoHelperIoUnderQueueMutex ==
  \A t \in Threads :
    lpc[t] \in HelperIoLines => mutex_owner["auxengine_mutex_"] # t

\* the gate is inside its critical section while a worker reads its helper's output
C25_GateRunsDuringQuery ==
  /\ lpc[GateThread] = "L87"
  /\ mutex_owner["auxengine_mutex_"] = GateThread
  /\ \E t \in Threads : lpc[t] = "L822"

\* the encoder is about to parse the line of worker t / to push the PV it made of it
EncProbing(t) == pc[t] \in {"enc_probe", "enc_probe_inf"}
EncPushing(t) == pc[t] \in {"enc_push", "enc_push_inf"}
\* the test of the info line that the spec calls the gate
GatePasses(t) ==
  \/ pc[t] # "enc_probe_inf"
  \/ cur_line[t].nodes >= 1000
  \/ cur_line[t].depth > 10
\* the call of the encoder left the PV cache and the PV queue as they were
EncNothingDone(t) ==
  /\ my_pv_cache_' = my_pv_cache_
  /\ ~EncPushing(t)'
  /\ UNCHANGED pv_vars
WellFormed(tokens) == \A j \in 1..Len(tokens) : tokens[j] # BadToken
Min3(a, b, c) ==
  IF a <= b /\ a <= c THEN a ELSE IF b <= c THEN b ELSE c

\* C26: the encoder accepts the pv of an info line only if require_some_depth is
\* false, or the line reports at least 1000 nodes, or it reports a depth above 10;
\* a call for a line that fails all three inserts nothing into the PV cache and
\* pushes nothing onto the PV queue.
C26_GateRejects ==
  [][\A t \in Threads :
       (EncProbing(t) /\ ~GatePasses(t)) => EncNothingDone(t)]_vars

\* the encoder has returned from a line of five well-formed moves that fails the
\* gate, with search running and nothing in the cache: nothing was done
C26_RejectedLongLine ==
  /\ pc[EncThread] = "do_read"
  /\ ~stop_
  /\ cur_line[EncThread] = [depth |-> 10, nodes |-> 999, pv |-> <<1, 2, 1, 2, 1>>]
  /\ my_pv_cache_ = {}
  /\ fast_track_extend_and_evaluate_queue_ = <<>>

\* C27: a helper PV of fewer than 4 moves is neither inserted into the PV cache nor
\* pushed onto the PV queue; a well-formed helper PV of 4 or more moves, of a line
\* that reports a depth of at least 4 and passes the gate, that is new to the cache
\* is pushed (search running, queue below its cap).
C27_MinPvSize ==
  [][\A t \in Threads :
       LET pv == cur_line[t].pv
       IN /\ (EncProbing(t) /\ Len(pv) < 4) => EncNothingDone(t)
          /\ (/\ EncProbing(t)
              /\ Len(pv) >= 4 /\ WellFormed(pv) /\ cur_line[t].depth >= 4
              /\ GatePasses(t)
              /\ ~stop_
              /\ \A key \in my_pv_cache_ : ~IsPrefix(key, pv))
             => EncPushing(t)'
          /\ (EncPushing(t) /\ CanPushPV(fast_track_extend_and_evaluate_queue_))
             => Len(fast_track_extend_and_evaluate_queue_') =
                  Len(fast_track_extend_and_evaluate_queue_) + 1]_vars

\* C28: of a well-formed pv of n moves in a line that reports the depth d the encoder
\* takes min(n, d, 99) moves: the PV it inserts into the cache has that length.
C28_TruncatedAtDepthAndCap ==
  [][\A t \in Threads :
       (EncProbing(t) /\ WellFormed(cur_line[t].pv)) =>
         \A key \in my_pv_cache_' \ my_pv_cache_ :
           Len(key) = Min3(Len(cur_line[t].pv), cur_line[t].depth, 99)]_vars

\* C29: a line whose pv holds a malformed move token is skipped: the call inserts
\* nothing into the PV cache and pushes nothing onto the PV queue.
C29_MalformedLineSkipped ==
  [][\A t \in Threads :
       (EncProbing(t) /\ ~WellFormed(cur_line[t].pv)) => EncNothingDone(t)]_vars

\* worker t, at the gate of lines 668-700 with the node it dequeued, puts it back
Reinserts(t) ==
  /\ pc[t] = "do_gate"
  /\ pc'[t] = "loop"
  /\ persistent_queue_of_nodes' = Append(persistent_queue_of_nodes, cur_n[t])
DepthFromRoot(n) == Len(n) - Len(root_node_)

\* C30: the depth sampling puts a dequeued node back on the node queue only if its
\* depth from the root is greater than AuxEngineMaxDepth; a dequeued node of depth
\* at most AuxEngineMaxDepth, the root included, goes on to the helper query unless
\* stop_ is set or the final purge has run.
C30_OnlyDeepNodesReinserted ==
  [][\A t \in Threads :
       /\ Reinserts(t) => DepthFromRoot(cur_n[t]) > AuxEngineMaxDepth
       /\ (/\ pc[t] = "do_gate" /\ pc'[t] # "do_gate"
           /\ DepthFromRoot(cur_n[t]) <= AuxEngineMaxDepth
           /\ ~stop_ /\ ~final_purge_run)
          => pc'[t] = "do_submit"]_vars

\* a node deeper than AuxEngineMaxDepth has been put back behind another node
C30_DeepNodeReinserted ==
  /\ last_op.op = "reinserted"
  /\ DepthFromRoot(last_op.node) > AuxEngineMaxDepth
  /\ Len(persistent_queue_of_nodes) > 1
  /\ persistent_queue_of_nodes[Len(persistent_queue_of_nodes)] = last_op.node

\* node n is on the node queue
Queued(n) == \E i \in DOMAIN persistent_queue_of_nodes : persistent_queue_of_nodes[i] = n
\* `position` and `go` for node n have been written to a helper
Queried(n) == \E t \in Threads : cur_n[t] = n /\ pc[t] = "do_read"
\* the nodes the gate may push that lie deeper than AuxEngineMaxDepth below the root
DeepNominees == { n \in Nodes : Tail(n) \in NomineePaths /\ Len(n) - 1 > AuxEngineMaxDepth }

\* C31: while stop_ is not set, a node on the node queue whose depth is greater than
\* AuxEngineMaxDepth is eventually given to a helper query (the workers are scheduled
\* and the sample of line 684 does not come out for reinsertion for ever); and a worker
\* at the test of line 679 with an empty queue goes on to the query without sampling.
\* A behaviour counts only while the engine runs: not after undefined behaviour.
C31_DeepNodeQueried ==
  /\ \A n \in DeepNominees :
       (Queued(n) /\ DepthFromRoot(n) > AuxEngineMaxDepth /\ ~stop_)
         ~> (Queried(n) \/ stop_ \/ aborted)
  /\ [][\A t \in Threads :
          (/\ pc[t] = "do_gate" /\ pc'[t] # "do_gate"
           /\ persistent_queue_of_nodes = <<>>
           /\ ~stop_ /\ ~final_purge_run)
          => pc'[t] = "do_submit"]_vars

\* a deep node is with a helper while another node waits on the queue
C31_DeepNodeWithHelper ==
  \E n \in DeepNominees :
    /\ Queried(n)
    /\ DepthFromRoot(n) > AuxEngineMaxDepth
    /\ persistent_queue_of_nodes # <<>>
    /\ ~stop_

\* C32: with AuxEngineOptionsOnRoot set, the worker with index 0 never goes to the
\* condition variable and the node queue; it enters DoAuxEngine from the top of its loop
\* with the root, whose tag it has set to PENDING, and writes `go infinite`.  No other
\* worker enters DoAuxEngine from the top of the loop, and every other `go` written is
\* `go movetime`: by a worker with another index, or by any worker when the option is
\* empty.
C32_RootInfiniteOnly ==
  [][\A t \in Threads :
       LET zero == our_index[t] = 0 /\ OptionsOnRoot
       IN /\ pc'[t] = "wait" => ~(our_index'[t] = 0 /\ OptionsOnRoot)
          /\ (pc[t] = "wait" /\ pc'[t] = "do_start") => ~zero
          /\ (pc[t] = "loop" /\ pc'[t] = "do_start")
               => /\ zero
                  /\ cur_n'[t] = root_node_
                  /\ aux_tag'[root_node_] = PENDING
          /\ (pc[t] = "do_submit" /\ pc'[t] = "do_read")
               => /\ helper'[our_index[t]] = IF zero THEN "go_inf" ELSE "go_time"
                  /\ zero => cur_n[t] = root_node_]_vars

\* worker 0 runs the infinite query of the root while another worker runs a
\* time-limited query of a dequeued node
C32_InfiniteAndTimed ==
  /\ OptionsOnRoot
  /\ \E t, u \in Threads :
       /\ our_index[t] = 0 /\ pc[t] = "do_read" /\ helper[0] = "go_inf"
       /\ cur_n[t] = root_node_
       /\ our_index[u] # 0 /\ pc[u] = "do_read" /\ helper[our_index[u]] = "go_time"
       /\ cur_n[u] # root_node_

\* worker t has taken its index and has not returned
LiveWorker(t) == pc[t] \notin {"none", "start", "done"}

\* C33: the workers that have taken an index and have not returned have pairwise
\* distinct indices, so no two of them use the streams of the same helper.
C33_LiveIndicesDistinct ==
  \A t, u \in Threads :
    (t # u /\ LiveWorker(t) /\ LiveWorker(u)) => our_index[t] # our_index[u]

\* two workers read from their helpers at the same time
C33_TwoWorkersReading ==
  \E t, u \in Threads :
    /\ t # u
    /\ pc[t] = "do_read" /\ pc[u] = "do_read"
    /\ helper[our_index[t]] = "go_time" /\ helper[our_index[u]] = "go_time"

\* worker t enters and starts a helper: child, streams, setoption and uci (lines 134-207)
Spawns(t) == pc[t] = "start" /\ pc'[t] = "handshake"

\* C34: a helper slot is started at most once.  A worker starts a helper only for the
\* slot next to those already started; a worker that enters with the index of a started
\* slot goes on without starting anything; and a started slot stays started, in this
\* search and in those after it.
C34_SlotStartedOnce ==
  [][/\ \A t \in Threads :
          /\ Spawns(t)
               => /\ our_index'[t] = Len(vector_of_auxengine_ready_)
                  /\ vector_of_auxengine_ready_' = Append(vector_of_auxengine_ready_, TRUE)
          /\ (/\ pc[t] = "start" /\ pc'[t] \notin {"start", "done"}
              /\ thread_counter < Len(vector_of_auxengine_ready_))
               => /\ ~Spawns(t)
                  /\ vector_of_auxengine_ready_' = vector_of_auxengine_ready_
     /\ Len(vector_of_auxengine_ready_') >= Len(vector_of_auxengine_ready_)
     /\ \A i \in DOMAIN vector_of_auxengine_ready_ :
          vector_of_auxengine_ready_[i] /\ vector_of_auxengine_ready_'[i]
     /\ Len(vector_of_auxengine_ready_') <= AuxEngineInstances]_vars

\* the second search: one worker has found its helper started by the first search,
\* the other starts the helper the first search did not start
C34_StartedAcrossMoves ==
  /\ searchNo = 2
  /\ \E t, u \in Threads :
       /\ pc[t] = "loop" /\ ~fresh[t]
       /\ pc[u] = "handshake" /\ fresh[u]

\* node n lies two edges or more below root r, under the edge of r with move mv
UnderPlayedMove(n, r, mv) ==
  /\ IsPrefix(r, n)
  /\ Len(n) >= Len(r) + 2
  /\ n[Len(r) + 1] = mv
\* the ancestor of n two edges below root r
AncestorAtDepth2(n, r) == SubSeq(n, 1, Len(r) + 2)
\* the entries of q under the played move, in order, each followed by its witness
RECURSIVE PairsUnderPlayedMove(_, _, _)
PairsUnderPlayedMove(q, r, mv) ==
  IF q = <<>> THEN <<>>
  ELSE (IF UnderPlayedMove(Head(q), r, mv)
        THEN <<Head(q), AncestorAtDepth2(Head(q), r)>> ELSE <<>>)
         \o PairsUnderPlayedMove(Tail(q), r, mv)

\* C35: after AuxWait() the node queue holds, for every entry it held before that lies
\* two edges or more below the root under the move just played, the entry followed by
\* its ancestor two edges below the root; the pairs are in the order of the entries, and
\* every other entry is gone.
C35_AuxWaitKeepsPlayedSubtree ==
  last_op.op = "auxwait"
    => persistent_queue_of_nodes =
         PairsUnderPlayedMove(last_op.arg[1], root_node_,
                              ParseMoveOf(final_bestmove_, IsBlackToMove(root_node_)))

\* AuxWait() has kept one entry of the queue and dropped another
C35_KeptOneDroppedOne ==
  /\ last_op.op = "auxwait"
  /\ Len(last_op.arg[1]) >= 2
  /\ persistent_queue_of_nodes # <<>>
  /\ Len(persistent_queue_of_nodes) < 2 * Len(last_op.arg[1])
  /\ persistent_queue_of_nodes[1] # persistent_queue_of_nodes[2]

\* the positions the backward walk of lines 108-135 reads, as indices of the history
WalkedIndices(h) == { k \in 1..(Len(h) - 1) : Len(h) - k <= Last(h).rule50_ply_ }
\* those with a goal: fewer than 10 legal moves
GoalIndices(h) == { k \in WalkedIndices(h) : h[k].L < NoGoal }
\* the order of the goals: fewer legal moves is higher, and Gk.0 (in check) is higher
\* than Gk.5 (not in check); a smaller rank is a higher goal
GoalRank(b) == 2 * b.L + (IF b.check THEN 0 ELSE 1)
\* the earliest position of the game among those with the highest goal
FirstHighestGoal(h) ==
  CHOOSE k \in GoalIndices(h) :
    \A j \in GoalIndices(h) :
      \/ GoalRank(h[k]) < GoalRank(h[j])
      \/ (GoalRank(h[k]) = GoalRank(h[j]) /\ k <= j)
\* is_black_to_move of the walk when it reads position k
WalkIsBlackToMove(h, black_first, k) ==
  IF (Len(h) - k - 1) % 2 = 0
  THEN HistoryIsBlackToMove(h, black_first)
  ELSE ~HistoryIsBlackToMove(h, black_first)

\* C36: when a position of the walk has a goal, best_goal of the classifier is the
\* highest goal of the walk (fewest legal moves; in check before not in check), and
\* the best player is the one the walk names at the earliest position of the game that
\* has this goal.
C36_HighestGoalFirstReached ==
  (RmobilityReturned /\ GoalIndices(positions_) # {})
    => LET k == FirstHighestGoal(positions_)
           best_goal == RmobilityGoal(positions_, black_at_reset)
       IN /\ best_goal.number_of_legal_moves = positions_[k].L
          /\ best_goal.is_in_check = positions_[k].check
          /\ best_goal.white_is_best_player
               = ~WalkIsBlackToMove(positions_, black_at_reset, k)

\* C37: the queue of PVs, the queue of their start depths and the queue of their node
\* supports have the same length in every state, as their alignment entry by entry
\* requires.
C37_PVQueuesSameLength ==
  /\ Len(starting_depth_of_PVs_) = Len(fast_track_extend_and_evaluate_queue_)
  /\ Len(amount_of_support_for_PVs_) = Len(fast_track_extend_and_evaluate_queue_)

\* C38: whenever ComputeGameResult is about to call the R-mobility classifier on a
\* history, every index that the classifier reads lies within 0..length-1.
C38_ClassifierReadsInRange ==
  (rpc = "play" /\ ~aborted /\ CallsRmobility(positions_))
    => \A k \in ClassifierReads(positions_) : k \in 0..(Len(positions_) - 1)

\* the line that AuxEncode_and_Enqueue of worker t would push: the moves from the root
\* to its target followed by the helper's moves
FullLine(t) ==
  MovesFromRoot(root_node_, cur_n[t])
    \o PvMoves(cur_line[t], pc[t] \in {"enc_probe_inf", "enc_push_inf"})

\* the full lines offered so far in a move in which no PV has left the PV queue: the
\* lines on the queue and the line of a worker between the cache and the push
OfferedLines ==
  { fast_track_extend_and_evaluate_queue_[i] :
      i \in DOMAIN fast_track_extend_and_evaluate_queue_ }
    \cup { FullLine(t) : t \in { u \in Threads : pc[u] \in {"enc_push", "enc_push_inf"} } }

\* worker t finds the key of its PV in the cache and returns without pushing
DroppedAsDuplicate(t) ==
  /\ W_EncProbe(t)
  /\ ~stop_
  /\ LET pv_moves == PvMoves(cur_line[t], pc[t] = "enc_probe_inf")
     IN /\ Len(pv_moves) >= min_pv_size
        /\ CacheSeen(my_pv_cache_, CacheKey(pv_moves))

\* C39: a worker drops a PV as a duplicate only if the same full line (the moves from
\* the root to the target followed by the helper's moves) was offered before in this
\* move; the same continuation found below another target is not a duplicate.
C39_DuplicateIsSameFullLine ==
  [][\A t \in Threads : DroppedAsDuplicate(t) => FullLine(t) \in OfferedLines]_vars

\* C40: a node that a worker has just taken from the node queue and is about to pass
\* to DoAuxEngine lies in the subtree of the current root, as every target nominated
\* in this move does; the entries of a pair that the end-of-move purge left for
\* another reply of the opponent do not.
C40_DequeuedBelowRoot ==
  last_op.op = "dequeued" => IsPrefix(root_node_, cur_n[last_op.arg])

====
